---- MODULE Spec2Model ----
(***************************************************************************)
(* Model of framework/infrastructure/traffic_director.py: the              *)
(* TrafficDirectorManager resource-lifecycle manager and its AppNet and    *)
(* Secure subclasses, driven against a remote control plane.               *)
(*                                                                         *)
(* A method of the manager is an operator from a run record to a run       *)
(* record.  A run record holds the manager's fields (m), the remote        *)
(* control plane (r), the remote calls issued so far by the running        *)
(* method (calls), the exception raised (err, "none" while running         *)
(* normally), the value returned by the last remote call (ret), the value   *)
(* the method returns (result) and the position of the remote call that    *)
(* fails for a reason of the remote's own (fault, 0 for none).  A raised   *)
(* exception propagates: every method and every remote call leaves a run   *)
(* record that has raised untouched.                                       *)
(***************************************************************************)
EXTENDS Integers, Sequences, FiniteSets, TLC

\* The number of manager operations in one behaviour, of any operations
\* (MaxOps) and of the setup and cleanup operations alone (MaxSteps).
MaxOps == 3
MaxSteps == 4

\* The number of operations in one behaviour of the backend and port
\* operations (MaxBackendOps), the zones of one backend attachment (MaxZones)
\* and the attempts of one search for a port (MaxAttempts).
MaxBackendOps == 3
MaxZones == 2
MaxAttempts == 2
MaxNames == 3

VARIABLES
    variant,   \* the class of the manager: "base", "appnet" or "secure"
    mgr,       \* the fields of the manager object
    remote,    \* the resources the remote control plane holds
    calls,     \* the remote calls issued by the last operation, in order
    err,       \* the exception the last operation raised, or "none"
    op,        \* the last operation and its arguments, until it has returned
    pre,       \* the manager and the remote as the last operation found them
    result,    \* the value the last operation returned to its caller
    nops,      \* the number of operations invoked so far
    limit      \* the number of operations the caller invokes at most

vars == <<variant, mgr, remote, calls, err, op, pre, result, nops, limit>>

-----------------------------------------------------------------------------
(* Values *)

\* Python's None for a resource reference.
None == [kind |-> "None", name |-> ""]

\* Python's None for an optional protocol argument or field.
NoProtocol == "None"

BACKEND_SERVICE_NAME == "backend-service"
ALTERNATIVE_BACKEND_SERVICE_NAME == "backend-service-alt"
AFFINITY_BACKEND_SERVICE_NAME == "backend-service-affinity"
HEALTH_CHECK_NAME == "health-check"
URL_MAP_NAME == "url-map"
URL_MAP_PATH_MATCHER_NAME == "path-matcher"
TARGET_PROXY_NAME == "target-proxy"
FORWARDING_RULE_NAME == "forwarding-rule"
FIREWALL_RULE_NAME == "allow-health-checks"
GRPC_ROUTE_NAME == "grpc-route"
ROUTER_NAME == "router"
SERVER_TLS_POLICY_NAME == "server-tls-policy"
CLIENT_TLS_POLICY_NAME == "client-tls-policy"
ENDPOINT_CONFIG_SELECTOR_NAME == "endpoint-policy"

_BackendGRPC == "GRPC"
_HealthCheckGRPC == "GRPC"

\* Inputs of the operations.
Variants == {"base", "appnet", "secure"}
ResourcePrefixes == {"psm"}
ResourceSuffixes == {"", "x1"}
\* Stands for a resource_suffix of None, which a str cannot equal.
NoSuffix == "<None>"
BackendProtocols == {"GRPC", "HTTP2", "HTTP"}
HealthCheckProtocols == {NoProtocol, "TCP"}
Hosts == {"svc.local"}
Ports == {8080}
NegNames == {"neg"}
Zones == {"us-a", "us-b"}
PortBounds == {1024, 1025}

\* The zones of one backend attachment, at most MaxZones of them, in any
\* order and with repetitions.
ZoneLists == UNION {[1 .. n -> Zones] : n \in 0 .. MaxZones}

-----------------------------------------------------------------------------
(* Naming *)

RECURSIVE Join(_, _)
\* str.join: the parts, with the separator between each two.
Join(parts, sep) ==
    IF Len(parts) = 0 THEN ""
    ELSE IF Len(parts) = 1 THEN parts[1]
    ELSE parts[1] \o sep \o Join(Tail(parts), sep)

\* The truth value of a str or None: false when empty or None.
bool(s) == s \notin {"", NoSuffix}

make_resource_name_KeepsEmptySuffix(m, name) ==
    Join(<<m.resource_prefix, name, m.resource_suffix>>, "-")

\* Dash-separated resource name with the resource prefix and suffix.
make_resource_name(m, name) ==
    LET parts == <<m.resource_prefix, name>>
    IN  Join(IF bool(m.resource_suffix)
             THEN Append(parts, m.resource_suffix)
             ELSE parts, "-")

-----------------------------------------------------------------------------
(* The manager object *)

\* TrafficDirectorManager.__init__: no managed resource is tracked.
BaseFields(prefix, suffix) ==
    [resource_prefix |-> prefix,
     resource_suffix |-> suffix,
     health_check |-> None,
     backend_service |-> None,
     backend_service_protocol |-> NoProtocol,
     url_map |-> None,
     firewall_rule |-> None,
     target_proxy |-> None,
     target_proxy_is_http |-> FALSE,
     forwarding_rule |-> None,
     backends |-> {},
     alternative_backend_service |-> None,
     alternative_backend_service_protocol |-> NoProtocol,
     alternative_backends |-> {},
     affinity_backend_service |-> None,
     affinity_backend_service_protocol |-> NoProtocol,
     affinity_backends |-> {}]

\* TrafficDirectorAppNetManager.__init__ adds the route and the router.
AppNetFields == [grpc_route |-> None, router |-> None]

\* TrafficDirectorSecureManager.__init__ adds the policies and the selector.
SecureFields ==
    [server_tls_policy |-> None, ecs |-> None, client_tls_policy |-> None]

\* The object a constructor of class v returns.
__init__(v, prefix, suffix) ==
    IF v = "appnet" THEN BaseFields(prefix, suffix) @@ AppNetFields
    ELSE IF v = "secure" THEN BaseFields(prefix, suffix) @@ SecureFields
    ELSE BaseFields(prefix, suffix)

-----------------------------------------------------------------------------
(* The remote control plane, as the manager's API clients present it *)

\* A resource of the remote: its collection and its name.
Resource(kind, name) == [kind |-> kind, name |-> name]

\* The resources the remote holds.
RemoteIds(r) == {x.id : x \in r}

\* A resource another resource of the remote still refers to.
Referenced(r, id) == \E x \in r : id \in x.refs

\* One remote call, as issued.
Call(verb, kind, name, ref, detail, outcome) ==
    [verb |-> verb, kind |-> kind, name |-> name, ref |-> ref,
     detail |-> detail, outcome |-> outcome]

Raised(st) == st.err # "none"

Raise(st, e) == [st EXCEPT !.err = e]

\* Whether the call about to be issued is the one the remote fails.
Faulty(st) == st.fault = Len(st.calls) + 1

\* A create call: the resource exists afterwards, referring to ref and with
\* no backends, and is returned; a call the remote fails raises and creates
\* nothing.
RemoteCreate(st, kind, name, ref, detail) ==
    IF Raised(st) THEN st
    ELSE IF Faulty(st)
    THEN [st EXCEPT
            !.calls = Append(@, Call("create", kind, name, ref, detail, "error")),
            !.err = "RemoteError"]
    ELSE LET id == Resource(kind, name)
         IN  [st EXCEPT
                !.calls = Append(@, Call("create", kind, name, ref, detail, "ok")),
                !.r = {x \in @ : x.id # id}
                        \cup {[id |-> id,
                               refs |-> IF ref = None THEN {} ELSE {ref},
                               backends |-> {}]},
                !.ret = id]

\* A delete-by-name call: a resource that is not there counts as deleted, a
\* resource still referred to is rejected, and a rejected or failed call
\* raises and deletes nothing.
RemoteDelete(st, kind, name) ==
    IF Raised(st) THEN st
    ELSE LET id == Resource(kind, name)
             outcome ==
                 IF Faulty(st) THEN "error"
                 ELSE IF id \notin RemoteIds(st.r) THEN "notfound"
                 ELSE IF Referenced(st.r, id) THEN "rejected"
                 ELSE "ok"
         IN  [st EXCEPT
                !.calls = Append(@, Call("delete", kind, name, None, "", outcome)),
                !.r = IF outcome = "ok" THEN {x \in @ : x.id # id} ELSE @,
                !.err = IF outcome \in {"error", "rejected"}
                        THEN "RemoteError" ELSE @]

\* A get-by-name call: returns the resource, raises when it is not there.
RemoteGet(st, kind, name) ==
    IF Raised(st) THEN st
    ELSE LET id == Resource(kind, name)
             outcome ==
                 IF Faulty(st) THEN "error"
                 ELSE IF id \notin RemoteIds(st.r) THEN "missing"
                 ELSE "ok"
         IN  [st EXCEPT
                !.calls = Append(@, Call("get", kind, name, None, "", outcome)),
                !.ret = IF outcome = "ok" THEN id ELSE @,
                !.err = IF outcome = "ok" THEN @ ELSE "RemoteError"]

\* A patch call on a resource: it refers to ref afterwards as well.
RemotePatch(st, res, ref) ==
    IF Raised(st) THEN st
    ELSE LET outcome ==
                 IF Faulty(st) THEN "error"
                 ELSE IF res \notin RemoteIds(st.r) THEN "missing"
                 ELSE "ok"
         IN  [st EXCEPT
                !.calls = Append(@, Call("patch", res.kind, res.name, ref, "", outcome)),
                !.r = IF outcome = "ok"
                      THEN {IF x.id = res
                            THEN [x EXCEPT !.refs = @ \cup {ref}] ELSE x : x \in @}
                      ELSE @,
                !.err = IF outcome = "ok" THEN @ ELSE "RemoteError"]

\* A zonal resource: the network endpoint group of a name in a zone.
ZonalGcpResource(name, zone) ==
    [kind |-> "networkEndpointGroup", name |-> name, zone |-> zone]

\* A wait for the network endpoint group of a name in a zone: returns the
\* group once the remote shows it, raises when the wait is given up.
RemoteWaitForNeg(st, name, zone) ==
    IF Raised(st) THEN st
    ELSE LET outcome == IF Faulty(st) THEN "error" ELSE "ok"
         IN  [st EXCEPT
                !.calls = Append(@, Call("wait", "networkEndpointGroup", name,
                                         None, zone, outcome)),
                !.ret = IF outcome = "ok" THEN ZonalGcpResource(name, zone)
                        ELSE @,
                !.err = IF outcome = "ok" THEN @ ELSE "RemoteError"]

\* A call that sets the backends of a backend service: the service has
\* exactly the given backends afterwards.
RemoteSetBackends(st, verb, service, backends) ==
    IF Raised(st) THEN st
    ELSE LET outcome ==
                 IF Faulty(st) THEN "error"
                 ELSE IF service \notin RemoteIds(st.r) THEN "missing"
                 ELSE "ok"
         IN  [st EXCEPT
                !.calls = Append(@, Call(verb, service.kind, service.name, None,
                                         backends, outcome)),
                !.r = IF outcome = "ok"
                      THEN {IF x.id = service
                            THEN [x EXCEPT !.backends = backends] ELSE x : x \in @}
                      ELSE @,
                !.err = IF outcome = "ok" THEN @ ELSE "RemoteError"]

\* An existence check of a forwarding rule on a port: returns the remote's
\* answer, which depends on the forwarding rules of every user of the project.
RemoteExistsForwardingRule(st, src_port, answer) ==
    IF Raised(st) THEN st
    ELSE LET outcome == IF Faulty(st) THEN "error"
                        ELSE IF answer THEN "found" ELSE "free"
         IN  [st EXCEPT
                !.calls = Append(@, Call("exists", "forwardingRule", "", None,
                                         ToString(src_port), outcome)),
                !.ret = IF outcome = "error" THEN @ ELSE answer,
                !.err = IF outcome = "error" THEN "RemoteError" ELSE @]

-----------------------------------------------------------------------------
(* TrafficDirectorManager: the per-resource operations *)

create_health_check_NoPresenceCheck(st, protocol) ==
    IF Raised(st) THEN st
    ELSE LET proto == IF protocol = NoProtocol THEN _HealthCheckGRPC ELSE protocol
             name == make_resource_name(st.m, HEALTH_CHECK_NAME)
             s1 == RemoteCreate(st, "healthCheck", name, None, proto)
         IN  IF Raised(s1) THEN s1 ELSE [s1 EXCEPT !.m.health_check = s1.ret]

create_health_check(st, protocol) ==
    IF Raised(st) THEN st
    ELSE IF st.m.health_check # None THEN Raise(st, "ValueError")
    ELSE LET proto == IF protocol = NoProtocol THEN _HealthCheckGRPC ELSE protocol
             name == make_resource_name(st.m, HEALTH_CHECK_NAME)
             s1 == RemoteCreate(st, "healthCheck", name, None, proto)
         IN  IF Raised(s1) THEN s1 ELSE [s1 EXCEPT !.m.health_check = s1.ret]

delete_health_check_KeepsRecord(st, force) ==
    IF Raised(st) THEN st
    ELSE IF ~force /\ st.m.health_check = None THEN st
    ELSE LET name == IF force THEN make_resource_name(st.m, HEALTH_CHECK_NAME)
                     ELSE st.m.health_check.name
         IN  RemoteDelete(st, "healthCheck", name)

delete_health_check_AlwaysCalls(st, force) ==
    IF Raised(st) THEN st
    ELSE LET name == IF force \/ st.m.health_check = None
                     THEN make_resource_name(st.m, HEALTH_CHECK_NAME)
                     ELSE st.m.health_check.name
             s1 == RemoteDelete(st, "healthCheck", name)
         IN  IF Raised(s1) THEN s1 ELSE [s1 EXCEPT !.m.health_check = None]

delete_health_check(st, force) ==
    IF Raised(st) THEN st
    ELSE IF ~force /\ st.m.health_check = None THEN st
    ELSE LET name == IF force THEN make_resource_name(st.m, HEALTH_CHECK_NAME)
                     ELSE st.m.health_check.name
             s1 == RemoteDelete(st, "healthCheck", name)
         IN  IF Raised(s1) THEN s1 ELSE [s1 EXCEPT !.m.health_check = None]

create_backend_service(st, protocol) ==
    IF Raised(st) THEN st
    ELSE LET proto == IF protocol = NoProtocol THEN _BackendGRPC ELSE protocol
             name == make_resource_name(st.m, BACKEND_SERVICE_NAME)
             s1 == RemoteCreate(st, "backendService", name,
                                st.m.health_check, proto)
         IN  IF Raised(s1) THEN s1
             ELSE [s1 EXCEPT !.m.backend_service = s1.ret,
                             !.m.backend_service_protocol = proto]

load_backend_service_RecordsProtocol(st) ==
    IF Raised(st) THEN st
    ELSE LET name == make_resource_name(st.m, BACKEND_SERVICE_NAME)
             s1 == RemoteGet(st, "backendService", name)
         IN  IF Raised(s1) THEN s1
             ELSE [s1 EXCEPT !.m.backend_service = s1.ret,
                             !.m.backend_service_protocol = _BackendGRPC]

load_backend_service(st) ==
    IF Raised(st) THEN st
    ELSE LET name == make_resource_name(st.m, BACKEND_SERVICE_NAME)
             s1 == RemoteGet(st, "backendService", name)
         IN  IF Raised(s1) THEN s1 ELSE [s1 EXCEPT !.m.backend_service = s1.ret]

delete_backend_service_ClearsBackends(st, force) ==
    IF Raised(st) THEN st
    ELSE IF ~force /\ st.m.backend_service = None THEN st
    ELSE LET name == IF force THEN make_resource_name(st.m, BACKEND_SERVICE_NAME)
                     ELSE st.m.backend_service.name
             s1 == RemoteDelete(st, "backendService", name)
         IN  IF Raised(s1) THEN s1
             ELSE [s1 EXCEPT !.m.backend_service = None, !.m.backends = {}]

delete_backend_service(st, force) ==
    IF Raised(st) THEN st
    ELSE IF ~force /\ st.m.backend_service = None THEN st
    ELSE LET name == IF force THEN make_resource_name(st.m, BACKEND_SERVICE_NAME)
                     ELSE st.m.backend_service.name
             s1 == RemoteDelete(st, "backendService", name)
         IN  IF Raised(s1) THEN s1 ELSE [s1 EXCEPT !.m.backend_service = None]

create_alternative_backend_service(st, protocol) ==
    IF Raised(st) THEN st
    ELSE LET proto == IF protocol = NoProtocol THEN _BackendGRPC ELSE protocol
             name == make_resource_name(st.m, ALTERNATIVE_BACKEND_SERVICE_NAME)
             s1 == RemoteCreate(st, "backendService", name,
                                st.m.health_check, proto)
         IN  IF Raised(s1) THEN s1
             ELSE [s1 EXCEPT !.m.alternative_backend_service = s1.ret,
                             !.m.alternative_backend_service_protocol = proto]

load_alternative_backend_service(st) ==
    IF Raised(st) THEN st
    ELSE LET name == make_resource_name(st.m, ALTERNATIVE_BACKEND_SERVICE_NAME)
             s1 == RemoteGet(st, "backendService", name)
         IN  IF Raised(s1) THEN s1
             ELSE [s1 EXCEPT !.m.alternative_backend_service = s1.ret]

delete_alternative_backend_service(st, force) ==
    IF Raised(st) THEN st
    ELSE IF ~force /\ st.m.alternative_backend_service = None THEN st
    ELSE LET name ==
                 IF force
                 THEN make_resource_name(st.m, ALTERNATIVE_BACKEND_SERVICE_NAME)
                 ELSE st.m.alternative_backend_service.name
             s1 == RemoteDelete(st, "backendService", name)
         IN  IF Raised(s1) THEN s1
             ELSE [s1 EXCEPT !.m.alternative_backend_service = None]

create_affinity_backend_service(st, protocol) ==
    IF Raised(st) THEN st
    ELSE LET proto == IF protocol = NoProtocol THEN _BackendGRPC ELSE protocol
             name == make_resource_name(st.m, AFFINITY_BACKEND_SERVICE_NAME)
             s1 == RemoteCreate(st, "backendService", name,
                                st.m.health_check, proto)
         IN  IF Raised(s1) THEN s1
             ELSE [s1 EXCEPT !.m.affinity_backend_service = s1.ret,
                             !.m.affinity_backend_service_protocol = proto]

load_affinity_backend_service(st) ==
    IF Raised(st) THEN st
    ELSE LET name == make_resource_name(st.m, AFFINITY_BACKEND_SERVICE_NAME)
             s1 == RemoteGet(st, "backendService", name)
         IN  IF Raised(s1) THEN s1
             ELSE [s1 EXCEPT !.m.affinity_backend_service = s1.ret]

delete_affinity_backend_service(st, force) ==
    IF Raised(st) THEN st
    ELSE IF ~force /\ st.m.affinity_backend_service = None THEN st
    ELSE LET name ==
                 IF force
                 THEN make_resource_name(st.m, AFFINITY_BACKEND_SERVICE_NAME)
                 ELSE st.m.affinity_backend_service.name
             s1 == RemoteDelete(st, "backendService", name)
         IN  IF Raised(s1) THEN s1
             ELSE [s1 EXCEPT !.m.affinity_backend_service = None]

\* The loop of an add_neg_backends: waits for the group of each zone in
\* turn and adds it to the tracked set of the service (field backends).
RECURSIVE wait_for_zones(_, _, _, _)
wait_for_zones(st, name, zones, backends) ==
    IF Raised(st) \/ zones = <<>> THEN st
    ELSE LET s1 == RemoteWaitForNeg(st, name, Head(zones))
         IN  IF Raised(s1) THEN s1
             ELSE wait_for_zones([s1 EXCEPT !.m[backends] = @ \cup {s1.ret}],
                                 name, Tail(zones), backends)

\* The log line reads the name of the service before the call is made.
add_backends(st, service, backends) ==
    IF Raised(st) THEN st
    ELSE IF st.m[service] = None THEN Raise(st, "AttributeError")
    ELSE RemoteSetBackends(st, "add_backends", st.m[service], st.m[backends])

\* The log line reads the name of the service before the call is made.
remove_all_backends(st, service) ==
    IF Raised(st) THEN st
    ELSE IF st.m[service] = None THEN Raise(st, "AttributeError")
    ELSE RemoteSetBackends(st, "remove_all_backends", st.m[service], {})

backend_service_add_backends(st) ==
    add_backends(st, "backend_service", "backends")

backend_service_add_neg_backends_PerZone(st, name, zones) ==
    IF zones = <<>> THEN backend_service_add_backends(st)
    ELSE LET s1 == wait_for_zones(st, name, <<Head(zones)>>, "backends")
             s2 == backend_service_add_backends(s1)
         IN  IF Len(zones) = 1 THEN s2
             ELSE backend_service_add_backends(
                      wait_for_zones(s2, name, Tail(zones), "backends"))

backend_service_add_neg_backends_ForgetsOnFailure(st, name, zones) ==
    LET s1 == wait_for_zones(st, name, zones, "backends")
    IN  IF Raised(s1) THEN [s1 EXCEPT !.m.backends = st.m.backends]
        ELSE backend_service_add_backends(s1)

backend_service_add_neg_backends(st, name, zones) ==
    backend_service_add_backends(wait_for_zones(st, name, zones, "backends"))

backend_service_remove_all_backends_ClearsTracked(st) ==
    LET s1 == remove_all_backends(st, "backend_service")
    IN  IF Raised(s1) THEN s1 ELSE [s1 EXCEPT !.m.backends = {}]

backend_service_remove_all_backends(st) ==
    remove_all_backends(st, "backend_service")

alternative_backend_service_add_backends(st) ==
    add_backends(st, "alternative_backend_service", "alternative_backends")

alternative_backend_service_add_neg_backends(st, name, zones) ==
    alternative_backend_service_add_backends(
        wait_for_zones(st, name, zones, "alternative_backends"))

alternative_backend_service_remove_all_backends(st) ==
    remove_all_backends(st, "alternative_backend_service")

affinity_backend_service_add_backends(st) ==
    add_backends(st, "affinity_backend_service", "affinity_backends")

affinity_backend_service_add_neg_backends(st, name, zones) ==
    affinity_backend_service_add_backends(
        wait_for_zones(st, name, zones, "affinity_backends"))

affinity_backend_service_remove_all_backends(st) ==
    remove_all_backends(st, "affinity_backend_service")

\* The log line of create_url_map reads backend_service.name before the call.
create_url_map(st, src_host, src_port) ==
    IF Raised(st) THEN st
    ELSE LET src_address == src_host \o ":" \o ToString(src_port)
             name == make_resource_name(st.m, URL_MAP_NAME)
         IN  IF st.m.backend_service = None THEN Raise(st, "AttributeError")
             ELSE LET s1 == RemoteCreate(st, "urlMap", name,
                                         st.m.backend_service, src_address)
                  IN  IF Raised(s1) THEN s1
                      ELSE [s1 EXCEPT !.m.url_map = s1.ret,
                                      !.result = s1.ret]

\* The body names the URL map and the service it routes to.
create_url_map_with_content(st, url_map_body) ==
    IF Raised(st) THEN st
    ELSE LET s1 == RemoteCreate(st, "urlMap", url_map_body.name,
                                url_map_body.service, "")
         IN  IF Raised(s1) THEN s1
             ELSE [s1 EXCEPT !.m.url_map = s1.ret, !.result = s1.ret]

delete_url_map(st, force) ==
    IF Raised(st) THEN st
    ELSE IF ~force /\ st.m.url_map = None THEN st
    ELSE LET name == IF force THEN make_resource_name(st.m, URL_MAP_NAME)
                     ELSE st.m.url_map.name
             s1 == RemoteDelete(st, "urlMap", name)
         IN  IF Raised(s1) THEN s1 ELSE [s1 EXCEPT !.m.url_map = None]

create_target_proxy_DefaultsToHttp(st) ==
    IF Raised(st) THEN st
    ELSE LET name == make_resource_name(st.m, TARGET_PROXY_NAME)
             proto == st.m.backend_service_protocol
             kind == IF proto = "GRPC" THEN "targetGrpcProxy"
                     ELSE "targetHttpProxy"
             s1 == [st EXCEPT !.m.target_proxy_is_http = (proto # "GRPC")]
         IN  IF s1.m.url_map = None THEN Raise(s1, "AttributeError")
             ELSE LET s2 == RemoteCreate(s1, kind, name, s1.m.url_map, "")
                  IN  IF Raised(s2) THEN s2
                      ELSE [s2 EXCEPT !.m.target_proxy = s2.ret]

\* target_proxy_is_http is assigned on choosing the flavor; the log line
\* then reads url_map.name, and only then is the proxy created.
create_target_proxy(st) ==
    IF Raised(st) THEN st
    ELSE LET name == make_resource_name(st.m, TARGET_PROXY_NAME)
             proto == st.m.backend_service_protocol
         IN  IF proto \notin {"GRPC", "HTTP2"} THEN Raise(st, "TypeError")
             ELSE LET kind == IF proto = "GRPC" THEN "targetGrpcProxy"
                              ELSE "targetHttpProxy"
                      s1 == [st EXCEPT !.m.target_proxy_is_http = (proto = "HTTP2")]
                  IN  IF s1.m.url_map = None THEN Raise(s1, "AttributeError")
                      ELSE LET s2 == RemoteCreate(s1, kind, name, s1.m.url_map, "")
                           IN  IF Raised(s2) THEN s2
                               ELSE [s2 EXCEPT !.m.target_proxy = s2.ret]

delete_target_grpc_proxy(st, force) ==
    IF Raised(st) THEN st
    ELSE IF ~force /\ st.m.target_proxy = None THEN st
    ELSE LET name == IF force THEN make_resource_name(st.m, TARGET_PROXY_NAME)
                     ELSE st.m.target_proxy.name
             s1 == RemoteDelete(st, "targetGrpcProxy", name)
         IN  IF Raised(s1) THEN s1
             ELSE [s1 EXCEPT !.m.target_proxy = None,
                             !.m.target_proxy_is_http = FALSE]

delete_target_http_proxy(st, force) ==
    IF Raised(st) THEN st
    ELSE IF ~force /\ ~(st.m.target_proxy # None /\ st.m.target_proxy_is_http)
    THEN st
    ELSE LET name == IF force THEN make_resource_name(st.m, TARGET_PROXY_NAME)
                     ELSE st.m.target_proxy.name
             s1 == RemoteDelete(st, "targetHttpProxy", name)
         IN  IF Raised(s1) THEN s1
             ELSE [s1 EXCEPT !.m.target_proxy = None,
                             !.m.target_proxy_is_http = FALSE]

find_unused_forwarding_rule_port_IgnoresAnswer(st, lo, hi, attempts, samples, answers) ==
    IF Raised(st) THEN st
    ELSE IF attempts <= 0 THEN Raise(st, "RuntimeError")
    ELSE IF lo > hi THEN Raise(st, "ValueError")
    ELSE LET src_port == Head(samples)
             s1 == RemoteExistsForwardingRule(st, src_port, Head(answers))
         IN  IF Raised(s1) THEN s1 ELSE [s1 EXCEPT !.result = src_port]

\* Up to `attempts` times: a port drawn at random from lo .. hi (samples,
\* in the order drawn) is returned when the remote reports no forwarding
\* rule on it (answers, in the order given); random.randint raises on an
\* empty range.
RECURSIVE find_unused_forwarding_rule_port(_, _, _, _, _, _)
find_unused_forwarding_rule_port(st, lo, hi, attempts, samples, answers) ==
    IF Raised(st) THEN st
    ELSE IF attempts <= 0 THEN Raise(st, "RuntimeError")
    ELSE IF lo > hi THEN Raise(st, "ValueError")
    ELSE LET src_port == Head(samples)
             s1 == RemoteExistsForwardingRule(st, src_port, Head(answers))
         IN  IF Raised(s1) THEN s1
             ELSE IF ~s1.ret THEN [s1 EXCEPT !.result = src_port]
             ELSE find_unused_forwarding_rule_port(
                      s1, lo, hi, attempts - 1, Tail(samples), Tail(answers))

\* The log line of create_forwarding_rule reads target_proxy.url before the call.
create_forwarding_rule(st, src_port) ==
    IF Raised(st) THEN st
    ELSE LET name == make_resource_name(st.m, FORWARDING_RULE_NAME)
         IN  IF st.m.target_proxy = None THEN Raise(st, "AttributeError")
             ELSE LET s1 == RemoteCreate(st, "forwardingRule", name,
                                         st.m.target_proxy, ToString(src_port))
                  IN  IF Raised(s1) THEN s1
                      ELSE [s1 EXCEPT !.m.forwarding_rule = s1.ret,
                                      !.result = s1.ret]

delete_forwarding_rule_ClearsFirst(st, force) ==
    IF Raised(st) THEN st
    ELSE IF ~force /\ st.m.forwarding_rule = None THEN st
    ELSE LET name == IF force THEN make_resource_name(st.m, FORWARDING_RULE_NAME)
                     ELSE st.m.forwarding_rule.name
         IN  RemoteDelete([st EXCEPT !.m.forwarding_rule = None],
                          "forwardingRule", name)

delete_forwarding_rule(st, force) ==
    IF Raised(st) THEN st
    ELSE IF ~force /\ st.m.forwarding_rule = None THEN st
    ELSE LET name == IF force THEN make_resource_name(st.m, FORWARDING_RULE_NAME)
                     ELSE st.m.forwarding_rule.name
             s1 == RemoteDelete(st, "forwardingRule", name)
         IN  IF Raised(s1) THEN s1 ELSE [s1 EXCEPT !.m.forwarding_rule = None]

create_firewall_rule(st) ==
    IF Raised(st) THEN st
    ELSE LET name == make_resource_name(st.m, FIREWALL_RULE_NAME)
             s1 == RemoteCreate(st, "firewall", name, None, "")
         IN  IF Raised(s1) THEN s1 ELSE [s1 EXCEPT !.m.firewall_rule = s1.ret]

delete_firewall_rule(st, force) ==
    IF Raised(st) THEN st
    ELSE IF ~force /\ st.m.firewall_rule = None THEN st
    ELSE LET name == IF force THEN make_resource_name(st.m, FIREWALL_RULE_NAME)
                     ELSE st.m.firewall_rule.name
             s1 == RemoteDelete(st, "firewall", name)
         IN  IF Raised(s1) THEN s1 ELSE [s1 EXCEPT !.m.firewall_rule = None]

-----------------------------------------------------------------------------
(* TrafficDirectorManager: setup and cleanup *)

setup_backend_for_grpc_ServiceFirst(st, protocol) ==
    create_health_check(create_backend_service(st, protocol), NoProtocol)

setup_backend_for_grpc_RollsBack(st, protocol) ==
    LET s1 == create_health_check(st, NoProtocol)
        s2 == create_backend_service(s1, protocol)
    IN  IF Raised(s2) /\ ~Raised(s1)
        THEN [delete_health_check([s2 EXCEPT !.err = "none"], FALSE)
                EXCEPT !.err = s2.err]
        ELSE s2

setup_backend_for_grpc(st, protocol) ==
    create_backend_service(create_health_check(st, NoProtocol), protocol)

setup_routing_rule_map_for_grpc(st, service_host, service_port) ==
    LET s1 == create_url_map(st, service_host, service_port)
        s2 == create_target_proxy(s1)
    IN  create_forwarding_rule(s2, service_port)

setup_for_grpc(st, service_host, service_port, backend_protocol) ==
    LET s1 == setup_backend_for_grpc(st, backend_protocol)
    IN  setup_routing_rule_map_for_grpc(s1, service_host, service_port)

cleanup_ForwardOrder(st, force) ==
    LET s1 == delete_health_check(st, force)
        s2 == delete_backend_service(s1, force)
        s3 == delete_alternative_backend_service(s2, force)
        s4 == delete_affinity_backend_service(s3, force)
        s5 == delete_url_map(s4, force)
        s6 == delete_target_http_proxy(s5, force)
        s7 == delete_target_grpc_proxy(s6, force)
    IN  delete_forwarding_rule(s7, force)

cleanup_ServiceBeforeMap(st, force) ==
    LET s1 == delete_forwarding_rule(st, force)
        s2 == delete_target_http_proxy(s1, force)
        s3 == delete_target_grpc_proxy(s2, force)
        s4 == delete_backend_service(s3, force)
        s5 == delete_url_map(s4, force)
        s6 == delete_alternative_backend_service(s5, force)
        s7 == delete_affinity_backend_service(s6, force)
    IN  delete_health_check(s7, force)

cleanup_NeverForces(st, force) ==
    LET s1 == delete_forwarding_rule(st, FALSE)
        s2 == delete_target_http_proxy(s1, FALSE)
        s3 == delete_target_grpc_proxy(s2, FALSE)
        s4 == delete_url_map(s3, FALSE)
        s5 == delete_backend_service(s4, FALSE)
        s6 == delete_alternative_backend_service(s5, FALSE)
        s7 == delete_affinity_backend_service(s6, FALSE)
    IN  delete_health_check(s7, FALSE)

\* Cleanup in the reverse order of creation.
cleanup_AlsoFirewall(st, force) ==
    LET s1 == delete_forwarding_rule(st, force)
        s2 == delete_target_http_proxy(s1, force)
        s3 == delete_target_grpc_proxy(s2, force)
        s4 == delete_url_map(s3, force)
        s5 == delete_backend_service(s4, force)
        s6 == delete_alternative_backend_service(s5, force)
        s7 == delete_affinity_backend_service(s6, force)
        s8 == delete_health_check(s7, force)
    IN  delete_firewall_rule(s8, force)

cleanup(st, force) ==
    LET s1 == delete_forwarding_rule(st, force)
        s2 == delete_target_http_proxy(s1, force)
        s3 == delete_target_grpc_proxy(s2, force)
        s4 == delete_url_map(s3, force)
        s5 == delete_backend_service(s4, force)
        s6 == delete_alternative_backend_service(s5, force)
        s7 == delete_affinity_backend_service(s6, force)
    IN  delete_health_check(s7, force)

-----------------------------------------------------------------------------
(* TrafficDirectorAppNetManager *)

\* The router is created referring to grpc_route.url, then loaded by name.
create_router(st) ==
    IF Raised(st) THEN st
    ELSE LET name == make_resource_name(st.m, ROUTER_NAME)
         IN  IF st.m.grpc_route = None THEN Raise(st, "AttributeError")
             ELSE LET s1 == RemoteCreate(st, "router", name, st.m.grpc_route,
                                         "PROXYLESS_GRPC")
                      s2 == RemoteGet(s1, "router", name)
                  IN  IF Raised(s2) THEN s2
                      ELSE [s2 EXCEPT !.m.router = s2.ret, !.result = s2.ret]

delete_router(st, force) ==
    IF Raised(st) THEN st
    ELSE IF ~force /\ st.m.router = None THEN st
    ELSE LET name == IF force THEN make_resource_name(st.m, ROUTER_NAME)
                     ELSE st.m.router.name
             s1 == RemoteDelete(st, "router", name)
         IN  IF Raised(s1) THEN s1 ELSE [s1 EXCEPT !.m.router = None]

\* The route's body names backend_service.name as its destination.
create_grpc_route(st, src_host, src_port) ==
    IF Raised(st) THEN st
    ELSE LET host == src_host \o ":" \o ToString(src_port)
             name == make_resource_name(st.m, GRPC_ROUTE_NAME)
         IN  IF st.m.backend_service = None THEN Raise(st, "AttributeError")
             ELSE LET s1 == RemoteCreate(st, "grpcRoute", name,
                                         st.m.backend_service, host)
                      s2 == RemoteGet(s1, "grpcRoute", name)
                  IN  IF Raised(s2) THEN s2
                      ELSE [s2 EXCEPT !.m.grpc_route = s2.ret,
                                      !.result = s2.ret]

create_grpc_route_with_content(st, body) ==
    IF Raised(st) THEN st
    ELSE LET name == make_resource_name(st.m, GRPC_ROUTE_NAME)
             s1 == RemoteCreate(st, "grpcRoute", name, body.service, "")
             s2 == RemoteGet(s1, "grpcRoute", name)
         IN  IF Raised(s2) THEN s2
             ELSE [s2 EXCEPT !.m.grpc_route = s2.ret, !.result = s2.ret]

delete_grpc_route(st, force) ==
    IF Raised(st) THEN st
    ELSE IF ~force /\ st.m.grpc_route = None THEN st
    ELSE LET name == IF force THEN make_resource_name(st.m, GRPC_ROUTE_NAME)
                     ELSE st.m.grpc_route.name
             s1 == RemoteDelete(st, "grpcRoute", name)
         IN  IF Raised(s1) THEN s1 ELSE [s1 EXCEPT !.m.grpc_route = None]

appnet_cleanup_RouteFirst(st, force) ==
    LET s1 == delete_grpc_route(st, force)
        s2 == delete_router(s1, force)
    IN  cleanup(s2, force)

\* TrafficDirectorAppNetManager.cleanup
appnet_cleanup(st, force) ==
    LET s1 == delete_router(st, force)
        s2 == delete_grpc_route(s1, force)
    IN  cleanup(s2, force)

-----------------------------------------------------------------------------
(* TrafficDirectorSecureManager *)

\* The keys of the policy document a TLS policy is created with.
PolicyKeys(tls, mtls, tlsKey, mtlsKey) ==
    Join((IF tls THEN <<tlsKey>> ELSE <<>>) \o (IF mtls THEN <<mtlsKey>> ELSE <<>>),
         ",")

create_server_tls_policy(st, tls, mtls) ==
    IF Raised(st) THEN st
    ELSE LET name == make_resource_name(st.m, SERVER_TLS_POLICY_NAME)
         IN  IF ~tls /\ ~mtls THEN st
             ELSE LET policy == PolicyKeys(tls, mtls, "serverCertificate",
                                           "mtlsPolicy")
                      s1 == RemoteCreate(st, "serverTlsPolicy", name, None, policy)
                      s2 == RemoteGet(s1, "serverTlsPolicy", name)
                  IN  IF Raised(s2) THEN s2
                      ELSE [s2 EXCEPT !.m.server_tls_policy = s2.ret]

delete_server_tls_policy(st, force) ==
    IF Raised(st) THEN st
    ELSE IF ~force /\ st.m.server_tls_policy = None THEN st
    ELSE LET name == IF force
                     THEN make_resource_name(st.m, SERVER_TLS_POLICY_NAME)
                     ELSE st.m.server_tls_policy.name
             s1 == RemoteDelete(st, "serverTlsPolicy", name)
         IN  IF Raised(s1) THEN s1 ELSE [s1 EXCEPT !.m.server_tls_policy = None]

\* The selector names the server TLS policy when one is tracked.
create_endpoint_config_selector(st, server_port) ==
    IF Raised(st) THEN st
    ELSE LET name == make_resource_name(st.m, ENDPOINT_CONFIG_SELECTOR_NAME)
             s1 == RemoteCreate(st, "endpointConfigSelector", name,
                                st.m.server_tls_policy, ToString(server_port))
             s2 == RemoteGet(s1, "endpointConfigSelector", name)
         IN  IF Raised(s2) THEN s2 ELSE [s2 EXCEPT !.m.ecs = s2.ret]

delete_endpoint_config_selector(st, force) ==
    IF Raised(st) THEN st
    ELSE IF ~force /\ st.m.ecs = None THEN st
    ELSE LET name == IF force
                     THEN make_resource_name(st.m, ENDPOINT_CONFIG_SELECTOR_NAME)
                     ELSE st.m.ecs.name
             s1 == RemoteDelete(st, "endpointConfigSelector", name)
         IN  IF Raised(s1) THEN s1 ELSE [s1 EXCEPT !.m.ecs = None]

create_client_tls_policy(st, tls, mtls) ==
    IF Raised(st) THEN st
    ELSE LET name == make_resource_name(st.m, CLIENT_TLS_POLICY_NAME)
         IN  IF ~tls /\ ~mtls THEN st
             ELSE LET policy == PolicyKeys(tls, mtls, "serverValidationCa",
                                           "clientCertificate")
                      s1 == RemoteCreate(st, "clientTlsPolicy", name, None, policy)
                      s2 == RemoteGet(s1, "clientTlsPolicy", name)
                  IN  IF Raised(s2) THEN s2
                      ELSE [s2 EXCEPT !.m.client_tls_policy = s2.ret]

delete_client_tls_policy(st, force) ==
    IF Raised(st) THEN st
    ELSE IF ~force /\ st.m.client_tls_policy = None THEN st
    ELSE LET name == IF force
                     THEN make_resource_name(st.m, CLIENT_TLS_POLICY_NAME)
                     ELSE st.m.client_tls_policy.name
             s1 == RemoteDelete(st, "clientTlsPolicy", name)
         IN  IF Raised(s1) THEN s1 ELSE [s1 EXCEPT !.m.client_tls_policy = None]

backend_service_apply_client_mtls_policy_AlwaysPatches(st) ==
    IF Raised(st) THEN st
    ELSE IF st.m.backend_service = None THEN Raise(st, "AttributeError")
    ELSE RemotePatch(st, st.m.backend_service, st.m.client_tls_policy)

\* Both branches log backend_service.name before anything else is done.
backend_service_apply_client_mtls_policy(st) ==
    IF Raised(st) THEN st
    ELSE IF st.m.backend_service = None THEN Raise(st, "AttributeError")
    ELSE IF st.m.client_tls_policy = None THEN st
    ELSE RemotePatch(st, st.m.backend_service, st.m.client_tls_policy)

setup_server_security(st, server_port, tls, mtls) ==
    create_endpoint_config_selector(create_server_tls_policy(st, tls, mtls),
                                    server_port)

setup_client_security(st, tls, mtls) ==
    backend_service_apply_client_mtls_policy(
        create_client_tls_policy(st, tls, mtls))

secure_cleanup_AddOnsFirst(st, force) ==
    LET s1 == delete_endpoint_config_selector(st, force)
        s2 == delete_server_tls_policy(s1, force)
        s3 == delete_client_tls_policy(s2, force)
    IN  cleanup(s3, force)

\* TrafficDirectorSecureManager.cleanup
secure_cleanup(st, force) ==
    LET s1 == cleanup(st, force)
        s2 == delete_endpoint_config_selector(s1, force)
        s3 == delete_server_tls_policy(s2, force)
    IN  delete_client_tls_policy(s3, force)

-----------------------------------------------------------------------------
(* The operations as steps of the manager *)

\* The last operation: its name and the arguments it was given.
Op(name) ==
    [name |-> name, force |-> FALSE, protocol |-> "", host |-> "", port |-> 0,
     tls |-> FALSE, mtls |-> FALSE, zones |-> <<>>, lo |-> 0, hi |-> 0,
     attempts |-> 0, fault |-> 0]

\* The run record an operation starts from, with the remote failing the
\* fault-th call the operation issues.
Start(fault) ==
    [m |-> mgr, r |-> remote, calls |-> <<>>, err |-> "none", ret |-> None,
     result |-> None, fault |-> fault]

\* The calls the remote can fail in an operation: those it issues when none fails.
FaultPoints(st) == 0 .. Len(st.calls)

\* No operation is running: the caller may invoke one.
NoOp == Op("")

\* The caller may invoke an operation: none is running, and the caller has
\* not invoked as many as it will.
Idle == op = NoOp /\ nops < limit

\* The operation o has run to st: returned, or raised st.err.
Finish(o, st) ==
    /\ mgr' = st.m
    /\ remote' = st.r
    /\ calls' = st.calls
    /\ err' = st.err
    /\ op' = [o EXCEPT !.fault = st.fault]
    /\ pre' = [m |-> mgr, r |-> remote]
    /\ result' = st.result
    /\ nops' = nops + 1
    /\ UNCHANGED <<variant, limit>>

Base == variant \in Variants
AppNet == variant = "appnet"
Secure == variant = "secure"

\* A manager of any class, just constructed, and a remote that holds nothing.
Fresh ==
    /\ variant \in Variants
    /\ \E prefix \in ResourcePrefixes, suffix \in ResourceSuffixes :
           mgr = __init__(variant, prefix, suffix)
    /\ remote = {}
    /\ calls = <<>>
    /\ err = "none"
    /\ op = NoOp
    /\ pre = [m |-> mgr, r |-> remote]
    /\ result = None
    /\ nops = 0

Init == Fresh /\ limit = MaxOps

InitLifecycle == Fresh /\ limit = MaxSteps

\* The backend and port operations are those of the base class, which the
\* subclasses inherit unchanged.
InitBackends == Fresh /\ variant = "base" /\ limit = MaxBackendOps

\* A manager of any class constructed with any suffix, none included.
InitNaming ==
    /\ variant \in Variants
    /\ \E prefix \in ResourcePrefixes,
          suffix \in ResourceSuffixes \cup {NoSuffix} :
           mgr = __init__(variant, prefix, suffix)
    /\ remote = {}
    /\ calls = <<>>
    /\ err = "none"
    /\ op = NoOp
    /\ pre = [m |-> mgr, r |-> remote]
    /\ result = None
    /\ nops = 0
    /\ limit = MaxNames

\* The caller has the result of the operation and goes on.
Return ==
    /\ op # NoOp
    /\ op' = NoOp
    /\ calls' = <<>>
    /\ err' = "none"
    /\ pre' = [m |-> mgr, r |-> remote]
    /\ result' = None
    /\ UNCHANGED <<variant, mgr, remote, nops, limit>>

\* A new process constructs the manager again, with the same prefix and
\* suffix; the remote keeps what it holds.
NewManager ==
    /\ Idle
    /\ mgr' = __init__(variant, mgr.resource_prefix, mgr.resource_suffix)
    /\ calls' = <<>>
    /\ err' = "none"
    /\ op' = Op("__init__")
    /\ pre' = [m |-> mgr, r |-> remote]
    /\ result' = None
    /\ nops' = nops + 1
    /\ UNCHANGED <<variant, remote, limit>>

SetupForGrpc ==
    /\ Idle
    /\ \E h \in Hosts, p \in Ports, b \in BackendProtocols :
         \E f \in FaultPoints(setup_for_grpc(Start(0), h, p, b)) :
           Finish([Op("setup_for_grpc") EXCEPT
                     !.protocol = b, !.host = h, !.port = p],
                  setup_for_grpc(Start(f), h, p, b))

SetupBackendForGrpc ==
    /\ Idle
    /\ \E b \in BackendProtocols :
         \E f \in FaultPoints(setup_backend_for_grpc(Start(0), b)) :
           Finish([Op("setup_backend_for_grpc") EXCEPT !.protocol = b],
                  setup_backend_for_grpc(Start(f), b))

SetupRoutingRuleMapForGrpc ==
    /\ Idle
    /\ \E h \in Hosts, p \in Ports :
         \E f \in FaultPoints(setup_routing_rule_map_for_grpc(Start(0), h, p)) :
           Finish([Op("setup_routing_rule_map_for_grpc") EXCEPT
                     !.host = h, !.port = p],
                  setup_routing_rule_map_for_grpc(Start(f), h, p))

\* cleanup, as the class of the manager defines it.
DoCleanup(st, force) ==
    IF variant = "appnet" THEN appnet_cleanup(st, force)
    ELSE IF variant = "secure" THEN secure_cleanup(st, force)
    ELSE cleanup(st, force)

Cleanup ==
    /\ Idle
    /\ \E force \in BOOLEAN :
         \E f \in FaultPoints(DoCleanup(Start(0), force)) :
           Finish([Op("cleanup") EXCEPT !.force = force],
                  DoCleanup(Start(f), force))

CreateHealthCheck ==
    /\ Idle
    /\ \E p \in HealthCheckProtocols :
         \E f \in FaultPoints(create_health_check(Start(0), p)) :
           Finish([Op("create_health_check") EXCEPT !.protocol = p],
                  create_health_check(Start(f), p))

DeleteHealthCheck ==
    /\ Idle
    /\ \E force \in BOOLEAN :
         \E f \in FaultPoints(delete_health_check(Start(0), force)) :
           Finish([Op("delete_health_check") EXCEPT !.force = force],
                  delete_health_check(Start(f), force))

CreateBackendService ==
    /\ Idle
    /\ \E b \in BackendProtocols \cup {NoProtocol} :
         \E f \in FaultPoints(create_backend_service(Start(0), b)) :
           Finish([Op("create_backend_service") EXCEPT !.protocol = b],
                  create_backend_service(Start(f), b))

LoadBackendService ==
    /\ Idle
    /\ \E f \in FaultPoints(load_backend_service(Start(0))) :
         Finish(Op("load_backend_service"), load_backend_service(Start(f)))

DeleteBackendService ==
    /\ Idle
    /\ \E force \in BOOLEAN :
         \E f \in FaultPoints(delete_backend_service(Start(0), force)) :
           Finish([Op("delete_backend_service") EXCEPT !.force = force],
                  delete_backend_service(Start(f), force))

CreateAlternativeBackendService ==
    /\ Idle
    /\ \E b \in BackendProtocols :
         \E f \in FaultPoints(create_alternative_backend_service(Start(0), b)) :
           Finish([Op("create_alternative_backend_service") EXCEPT !.protocol = b],
                  create_alternative_backend_service(Start(f), b))

LoadAlternativeBackendService ==
    /\ Idle
    /\ \E f \in FaultPoints(load_alternative_backend_service(Start(0))) :
         Finish(Op("load_alternative_backend_service"),
                load_alternative_backend_service(Start(f)))

DeleteAlternativeBackendService ==
    /\ Idle
    /\ \E force \in BOOLEAN :
         \E f \in FaultPoints(delete_alternative_backend_service(Start(0), force)) :
           Finish([Op("delete_alternative_backend_service") EXCEPT !.force = force],
                  delete_alternative_backend_service(Start(f), force))

CreateAffinityBackendService ==
    /\ Idle
    /\ \E b \in BackendProtocols :
         \E f \in FaultPoints(create_affinity_backend_service(Start(0), b)) :
           Finish([Op("create_affinity_backend_service") EXCEPT !.protocol = b],
                  create_affinity_backend_service(Start(f), b))

LoadAffinityBackendService ==
    /\ Idle
    /\ \E f \in FaultPoints(load_affinity_backend_service(Start(0))) :
         Finish(Op("load_affinity_backend_service"),
                load_affinity_backend_service(Start(f)))

DeleteAffinityBackendService ==
    /\ Idle
    /\ \E force \in BOOLEAN :
         \E f \in FaultPoints(delete_affinity_backend_service(Start(0), force)) :
           Finish([Op("delete_affinity_backend_service") EXCEPT !.force = force],
                  delete_affinity_backend_service(Start(f), force))

CreateUrlMap ==
    /\ Idle
    /\ \E h \in Hosts, p \in Ports :
         \E f \in FaultPoints(create_url_map(Start(0), h, p)) :
           Finish([Op("create_url_map") EXCEPT !.host = h, !.port = p],
                  create_url_map(Start(f), h, p))

\* The caller's body names the URL map as the manager would and routes to
\* the backend service the manager tracks.
UrlMapBody ==
    [name |-> make_resource_name(mgr, URL_MAP_NAME),
     service |-> mgr.backend_service]

CreateUrlMapWithContent ==
    /\ Idle
    /\ \E f \in FaultPoints(create_url_map_with_content(Start(0), UrlMapBody)) :
         Finish(Op("create_url_map_with_content"),
                create_url_map_with_content(Start(f), UrlMapBody))

DeleteUrlMap ==
    /\ Idle
    /\ \E force \in BOOLEAN :
         \E f \in FaultPoints(delete_url_map(Start(0), force)) :
           Finish([Op("delete_url_map") EXCEPT !.force = force],
                  delete_url_map(Start(f), force))

CreateTargetProxy ==
    /\ Idle
    /\ \E f \in FaultPoints(create_target_proxy(Start(0))) :
         Finish(Op("create_target_proxy"), create_target_proxy(Start(f)))

DeleteTargetGrpcProxy ==
    /\ Idle
    /\ \E force \in BOOLEAN :
         \E f \in FaultPoints(delete_target_grpc_proxy(Start(0), force)) :
           Finish([Op("delete_target_grpc_proxy") EXCEPT !.force = force],
                  delete_target_grpc_proxy(Start(f), force))

DeleteTargetHttpProxy ==
    /\ Idle
    /\ \E force \in BOOLEAN :
         \E f \in FaultPoints(delete_target_http_proxy(Start(0), force)) :
           Finish([Op("delete_target_http_proxy") EXCEPT !.force = force],
                  delete_target_http_proxy(Start(f), force))

CreateForwardingRule ==
    /\ Idle
    /\ \E p \in Ports :
         \E f \in FaultPoints(create_forwarding_rule(Start(0), p)) :
           Finish([Op("create_forwarding_rule") EXCEPT !.port = p],
                  create_forwarding_rule(Start(f), p))

DeleteForwardingRule ==
    /\ Idle
    /\ \E force \in BOOLEAN :
         \E f \in FaultPoints(delete_forwarding_rule(Start(0), force)) :
           Finish([Op("delete_forwarding_rule") EXCEPT !.force = force],
                  delete_forwarding_rule(Start(f), force))

CreateFirewallRule ==
    /\ Idle
    /\ \E f \in FaultPoints(create_firewall_rule(Start(0))) :
         Finish(Op("create_firewall_rule"), create_firewall_rule(Start(f)))

DeleteFirewallRule ==
    /\ Idle
    /\ \E force \in BOOLEAN :
         \E f \in FaultPoints(delete_firewall_rule(Start(0), force)) :
           Finish([Op("delete_firewall_rule") EXCEPT !.force = force],
                  delete_firewall_rule(Start(f), force))

CreateRouter ==
    /\ Idle
    /\ AppNet
    /\ \E f \in FaultPoints(create_router(Start(0))) :
         Finish(Op("create_router"), create_router(Start(f)))

DeleteRouter ==
    /\ Idle
    /\ AppNet
    /\ \E force \in BOOLEAN :
         \E f \in FaultPoints(delete_router(Start(0), force)) :
           Finish([Op("delete_router") EXCEPT !.force = force],
                  delete_router(Start(f), force))

CreateGrpcRoute ==
    /\ Idle
    /\ AppNet
    /\ \E h \in Hosts, p \in Ports :
         \E f \in FaultPoints(create_grpc_route(Start(0), h, p)) :
           Finish([Op("create_grpc_route") EXCEPT !.host = h, !.port = p],
                  create_grpc_route(Start(f), h, p))

\* The caller's body routes to the backend service the manager tracks.
GrpcRouteBody == [service |-> mgr.backend_service]

CreateGrpcRouteWithContent ==
    /\ Idle
    /\ AppNet
    /\ \E f \in FaultPoints(create_grpc_route_with_content(Start(0), GrpcRouteBody)) :
         Finish(Op("create_grpc_route_with_content"),
                create_grpc_route_with_content(Start(f), GrpcRouteBody))

DeleteGrpcRoute ==
    /\ Idle
    /\ AppNet
    /\ \E force \in BOOLEAN :
         \E f \in FaultPoints(delete_grpc_route(Start(0), force)) :
           Finish([Op("delete_grpc_route") EXCEPT !.force = force],
                  delete_grpc_route(Start(f), force))

SetupServerSecurity ==
    /\ Idle
    /\ Secure
    /\ \E p \in Ports, tls \in BOOLEAN, mtls \in BOOLEAN :
         \E f \in FaultPoints(setup_server_security(Start(0), p, tls, mtls)) :
           Finish([Op("setup_server_security") EXCEPT
                     !.port = p, !.tls = tls, !.mtls = mtls],
                  setup_server_security(Start(f), p, tls, mtls))

SetupClientSecurity ==
    /\ Idle
    /\ Secure
    /\ \E tls \in BOOLEAN, mtls \in BOOLEAN :
         \E f \in FaultPoints(setup_client_security(Start(0), tls, mtls)) :
           Finish([Op("setup_client_security") EXCEPT !.tls = tls, !.mtls = mtls],
                  setup_client_security(Start(f), tls, mtls))

CreateServerTlsPolicy ==
    /\ Idle
    /\ Secure
    /\ \E tls \in BOOLEAN, mtls \in BOOLEAN :
         \E f \in FaultPoints(create_server_tls_policy(Start(0), tls, mtls)) :
           Finish([Op("create_server_tls_policy") EXCEPT !.tls = tls, !.mtls = mtls],
                  create_server_tls_policy(Start(f), tls, mtls))

DeleteServerTlsPolicy ==
    /\ Idle
    /\ Secure
    /\ \E force \in BOOLEAN :
         \E f \in FaultPoints(delete_server_tls_policy(Start(0), force)) :
           Finish([Op("delete_server_tls_policy") EXCEPT !.force = force],
                  delete_server_tls_policy(Start(f), force))

CreateEndpointConfigSelector ==
    /\ Idle
    /\ Secure
    /\ \E p \in Ports :
         \E f \in FaultPoints(create_endpoint_config_selector(Start(0), p)) :
           Finish([Op("create_endpoint_config_selector") EXCEPT !.port = p],
                  create_endpoint_config_selector(Start(f), p))

DeleteEndpointConfigSelector ==
    /\ Idle
    /\ Secure
    /\ \E force \in BOOLEAN :
         \E f \in FaultPoints(delete_endpoint_config_selector(Start(0), force)) :
           Finish([Op("delete_endpoint_config_selector") EXCEPT !.force = force],
                  delete_endpoint_config_selector(Start(f), force))

CreateClientTlsPolicy ==
    /\ Idle
    /\ Secure
    /\ \E tls \in BOOLEAN, mtls \in BOOLEAN :
         \E f \in FaultPoints(create_client_tls_policy(Start(0), tls, mtls)) :
           Finish([Op("create_client_tls_policy") EXCEPT !.tls = tls, !.mtls = mtls],
                  create_client_tls_policy(Start(f), tls, mtls))

DeleteClientTlsPolicy ==
    /\ Idle
    /\ Secure
    /\ \E force \in BOOLEAN :
         \E f \in FaultPoints(delete_client_tls_policy(Start(0), force)) :
           Finish([Op("delete_client_tls_policy") EXCEPT !.force = force],
                  delete_client_tls_policy(Start(f), force))

BackendServiceApplyClientMtlsPolicy ==
    /\ Idle
    /\ Secure
    /\ \E f \in FaultPoints(backend_service_apply_client_mtls_policy(Start(0))) :
         Finish(Op("backend_service_apply_client_mtls_policy"),
                backend_service_apply_client_mtls_policy(Start(f)))

BackendServiceAddNegBackends ==
    /\ Idle
    /\ \E name \in NegNames, zones \in ZoneLists :
         \E f \in FaultPoints(backend_service_add_neg_backends(Start(0), name, zones)) :
           Finish([Op("backend_service_add_neg_backends") EXCEPT !.zones = zones],
                  backend_service_add_neg_backends(Start(f), name, zones))

BackendServiceAddBackends ==
    /\ Idle
    /\ \E f \in FaultPoints(backend_service_add_backends(Start(0))) :
         Finish(Op("backend_service_add_backends"), backend_service_add_backends(Start(f)))

BackendServiceRemoveAllBackends ==
    /\ Idle
    /\ \E f \in FaultPoints(backend_service_remove_all_backends(Start(0))) :
         Finish(Op("backend_service_remove_all_backends"), backend_service_remove_all_backends(Start(f)))

AlternativeBackendServiceAddNegBackends ==
    /\ Idle
    /\ \E name \in NegNames, zones \in ZoneLists :
         \E f \in FaultPoints(alternative_backend_service_add_neg_backends(Start(0), name, zones)) :
           Finish([Op("alternative_backend_service_add_neg_backends") EXCEPT !.zones = zones],
                  alternative_backend_service_add_neg_backends(Start(f), name, zones))

AlternativeBackendServiceAddBackends ==
    /\ Idle
    /\ \E f \in FaultPoints(alternative_backend_service_add_backends(Start(0))) :
         Finish(Op("alternative_backend_service_add_backends"), alternative_backend_service_add_backends(Start(f)))

AlternativeBackendServiceRemoveAllBackends ==
    /\ Idle
    /\ \E f \in FaultPoints(alternative_backend_service_remove_all_backends(Start(0))) :
         Finish(Op("alternative_backend_service_remove_all_backends"), alternative_backend_service_remove_all_backends(Start(f)))

AffinityBackendServiceAddNegBackends ==
    /\ Idle
    /\ \E name \in NegNames, zones \in ZoneLists :
         \E f \in FaultPoints(affinity_backend_service_add_neg_backends(Start(0), name, zones)) :
           Finish([Op("affinity_backend_service_add_neg_backends") EXCEPT !.zones = zones],
                  affinity_backend_service_add_neg_backends(Start(f), name, zones))

AffinityBackendServiceAddBackends ==
    /\ Idle
    /\ \E f \in FaultPoints(affinity_backend_service_add_backends(Start(0))) :
         Finish(Op("affinity_backend_service_add_backends"), affinity_backend_service_add_backends(Start(f)))

AffinityBackendServiceRemoveAllBackends ==
    /\ Idle
    /\ \E f \in FaultPoints(affinity_backend_service_remove_all_backends(Start(0))) :
         Finish(Op("affinity_backend_service_remove_all_backends"), affinity_backend_service_remove_all_backends(Start(f)))

\* The ports random.randint may draw in the attempts of one search: none
\* when the range is empty.
Samples(lo, hi, attempts) ==
    IF lo > hi THEN {<<>>} ELSE [1 .. attempts -> lo .. hi]

FindUnusedForwardingRulePort ==
    /\ Idle
    /\ \E lo \in PortBounds, hi \in PortBounds, attempts \in 0 .. MaxAttempts :
         \E samples \in Samples(lo, hi, attempts),
            answers \in [1 .. attempts -> BOOLEAN] :
           \E f \in FaultPoints(find_unused_forwarding_rule_port(
                                    Start(0), lo, hi, attempts, samples, answers)) :
             Finish([Op("find_unused_forwarding_rule_port") EXCEPT
                       !.lo = lo, !.hi = hi, !.attempts = attempts],
                    find_unused_forwarding_rule_port(
                        Start(f), lo, hi, attempts, samples, answers))

Next ==
    \/ Return
    \/ NewManager
    \/ SetupForGrpc
    \/ SetupBackendForGrpc
    \/ SetupRoutingRuleMapForGrpc
    \/ Cleanup
    \/ CreateHealthCheck
    \/ DeleteHealthCheck
    \/ CreateBackendService
    \/ LoadBackendService
    \/ DeleteBackendService
    \/ CreateAlternativeBackendService
    \/ LoadAlternativeBackendService
    \/ DeleteAlternativeBackendService
    \/ CreateAffinityBackendService
    \/ LoadAffinityBackendService
    \/ DeleteAffinityBackendService
    \/ CreateUrlMap
    \/ CreateUrlMapWithContent
    \/ DeleteUrlMap
    \/ CreateTargetProxy
    \/ DeleteTargetGrpcProxy
    \/ DeleteTargetHttpProxy
    \/ CreateForwardingRule
    \/ DeleteForwardingRule
    \/ CreateFirewallRule
    \/ DeleteFirewallRule
    \/ CreateRouter
    \/ DeleteRouter
    \/ CreateGrpcRoute
    \/ CreateGrpcRouteWithContent
    \/ DeleteGrpcRoute
    \/ SetupServerSecurity
    \/ SetupClientSecurity
    \/ CreateServerTlsPolicy
    \/ DeleteServerTlsPolicy
    \/ CreateEndpointConfigSelector
    \/ DeleteEndpointConfigSelector
    \/ CreateClientTlsPolicy
    \/ DeleteClientTlsPolicy
    \/ BackendServiceApplyClientMtlsPolicy

Spec == Init /\ [][Next]_vars

\* The manager as a test drives it: set up, secured or routed, cleaned up,
\* constructed again.
LifecycleNext ==
    \/ Return
    \/ NewManager
    \/ SetupForGrpc
    \/ SetupBackendForGrpc
    \/ SetupRoutingRuleMapForGrpc
    \/ CreateGrpcRoute
    \/ CreateRouter
    \/ SetupServerSecurity
    \/ SetupClientSecurity
    \/ Cleanup

SpecLifecycle == InitLifecycle /\ [][LifecycleNext]_vars

\* The operations on backends and ports, the creates and deletes of the
\* services the backends are attached to, and the cleanup.
BackendsNext ==
    \/ Return
    \/ CreateBackendService
    \/ CreateAlternativeBackendService
    \/ CreateAffinityBackendService
    \/ DeleteBackendService
    \/ Cleanup
    \/ BackendServiceAddNegBackends
    \/ BackendServiceAddBackends
    \/ BackendServiceRemoveAllBackends
    \/ AlternativeBackendServiceAddNegBackends
    \/ AlternativeBackendServiceAddBackends
    \/ AlternativeBackendServiceRemoveAllBackends
    \/ AffinityBackendServiceAddNegBackends
    \/ AffinityBackendServiceAddBackends
    \/ AffinityBackendServiceRemoveAllBackends
    \/ FindUnusedForwardingRulePort

SpecBackends == InitBackends /\ [][BackendsNext]_vars

\* Every operation that names a resource: the creates, the deletes and the
\* cleanup, and the construction of a manager with the same settings.
NamingNext ==
    \/ Return
    \/ NewManager
    \/ Cleanup
    \/ CreateHealthCheck
    \/ DeleteHealthCheck
    \/ CreateBackendService
    \/ DeleteBackendService
    \/ CreateAlternativeBackendService
    \/ DeleteAlternativeBackendService
    \/ CreateAffinityBackendService
    \/ DeleteAffinityBackendService
    \/ CreateUrlMap
    \/ CreateUrlMapWithContent
    \/ DeleteUrlMap
    \/ CreateTargetProxy
    \/ DeleteTargetGrpcProxy
    \/ DeleteTargetHttpProxy
    \/ CreateForwardingRule
    \/ DeleteForwardingRule
    \/ CreateFirewallRule
    \/ DeleteFirewallRule
    \/ CreateRouter
    \/ DeleteRouter
    \/ CreateGrpcRoute
    \/ CreateGrpcRouteWithContent
    \/ DeleteGrpcRoute
    \/ CreateServerTlsPolicy
    \/ DeleteServerTlsPolicy
    \/ CreateEndpointConfigSelector
    \/ DeleteEndpointConfigSelector
    \/ CreateClientTlsPolicy
    \/ DeleteClientTlsPolicy

SpecNaming == InitNaming /\ [][NamingNext]_vars

-----------------------------------------------------------------------------
(* Vocabulary of the properties *)

\* The resource a call names.
Target(c) == Resource(c.kind, c.name)

Targets(cs) == [i \in 1 .. Len(cs) |-> Target(cs[i])]

IsPrefix(a, b) == Len(a) <= Len(b) /\ SubSeq(b, 1, Len(a)) = a

\* The resource of a collection that carries the manager's name for it.
Derived(m, kind, base) == Resource(kind, make_resource_name(m, base))

\* A call the remote did not carry out.
Failed(c) == c.outcome \in {"error", "rejected", "missing"}

\* The manager as its constructor leaves it.
IsFresh(m) == m = __init__(variant, m.resource_prefix, m.resource_suffix)

\* The registry entries of each class, firewall rule apart, with the
\* collection and the base name of each.
BaseEntries ==
    <<[field |-> "forwarding_rule", kind |-> "forwardingRule",
       base |-> FORWARDING_RULE_NAME],
      [field |-> "target_proxy", kind |-> "targetHttpProxy",
       base |-> TARGET_PROXY_NAME],
      [field |-> "target_proxy", kind |-> "targetGrpcProxy",
       base |-> TARGET_PROXY_NAME],
      [field |-> "url_map", kind |-> "urlMap", base |-> URL_MAP_NAME],
      [field |-> "backend_service", kind |-> "backendService",
       base |-> BACKEND_SERVICE_NAME],
      [field |-> "alternative_backend_service", kind |-> "backendService",
       base |-> ALTERNATIVE_BACKEND_SERVICE_NAME],
      [field |-> "affinity_backend_service", kind |-> "backendService",
       base |-> AFFINITY_BACKEND_SERVICE_NAME],
      [field |-> "health_check", kind |-> "healthCheck",
       base |-> HEALTH_CHECK_NAME]>>

AppNetEntries ==
    <<[field |-> "router", kind |-> "router", base |-> ROUTER_NAME],
      [field |-> "grpc_route", kind |-> "grpcRoute", base |-> GRPC_ROUTE_NAME]>>

SecureEntries ==
    <<[field |-> "ecs", kind |-> "endpointConfigSelector",
       base |-> ENDPOINT_CONFIG_SELECTOR_NAME],
      [field |-> "server_tls_policy", kind |-> "serverTlsPolicy",
       base |-> SERVER_TLS_POLICY_NAME],
      [field |-> "client_tls_policy", kind |-> "clientTlsPolicy",
       base |-> CLIENT_TLS_POLICY_NAME]>>

FirewallEntry ==
    [field |-> "firewall_rule", kind |-> "firewall", base |-> FIREWALL_RULE_NAME]

\* The deletes of a cleanup of class v, in the order the claims expect of
\* the code.
Plan(v) ==
    IF v = "appnet" THEN AppNetEntries \o BaseEntries
    ELSE IF v = "secure" THEN BaseEntries \o SecureEntries
    ELSE BaseEntries

Range(seq) == {seq[i] : i \in 1 .. Len(seq)}

AddOnKinds == {e.kind : e \in Range(AppNetEntries) \cup Range(SecureEntries)}

\* The resources the registry of a manager of class v tracks, firewall
\* rule apart.
Tracked(m, v) == {m[e.field] : e \in Range(Plan(v))} \ {None}

\* Every registry entry is absent.
AllAbsent(m, v) == Tracked(m, v) = {} /\ m.firewall_rule = None

\* The remote's resources other than firewall rules.
ManagedIds(r) == {id \in RemoteIds(r) : id.kind # "firewall"}

\* The flavor flag agrees with the proxy the registry tracks.
FlavorAgrees(m) ==
    m.target_proxy # None =>
        (m.target_proxy_is_http <=> m.target_proxy.kind = "targetHttpProxy")

\* The registry and the remote agree: the manager tracks what the remote
\* holds, as a manager does after set-ups that all succeeded.
Mirrors(m, r, v) == ManagedIds(r) = Tracked(m, v) /\ FlavorAgrees(m)

\* The position in a cleanup's plan of the delete a call is.
PlanPos(m, v, c) ==
    CHOOSE i \in 1 .. Len(Plan(v)) :
        Target(c) = Derived(m, Plan(v)[i].kind, Plan(v)[i].base)

\* Whether a delete of a plan's entry issues a call, by the code's conditions.
Due(m, force, e) ==
    \/ force
    \/ IF e.kind = "targetHttpProxy"
       THEN m.target_proxy # None /\ m.target_proxy_is_http
       ELSE m[e.field] # None

-----------------------------------------------------------------------------
(* C1 *)

\* The registry after a successful setup_for_grpc on a new manager: the
\* five resources tracked, of the proxy flavor the flag tells, no other
\* backend service.
TracksSetupForGrpc(m) ==
    /\ m.health_check # None /\ m.backend_service # None /\ m.url_map # None
    /\ m.target_proxy # None /\ m.forwarding_rule # None
    /\ m.alternative_backend_service = None
    /\ m.affinity_backend_service = None
    /\ FlavorAgrees(m)

\* The five resources in the reverse of the order setup_for_grpc creates them.
ReverseOfSetup(m) ==
    <<m.forwarding_rule, m.target_proxy, m.url_map, m.backend_service,
      m.health_check>>

\* C1: after setup_for_grpc on a base manager, cleanup(force=False) issues
\* delete calls only, for the forwarding rule, the proxy in the collection
\* of its flavor, the URL map, the backend service and the health check in
\* that order: all five when every call succeeds, none after one that fails.
C1_CleanupReversesSetup ==
    (/\ op.name = "cleanup" /\ ~op.force /\ variant = "base"
     /\ TracksSetupForGrpc(pre.m))
    => /\ \A i \in 1 .. Len(calls) : calls[i].verb = "delete"
       /\ IsPrefix(Targets(calls), ReverseOfSetup(pre.m))
       /\ (err = "none" => Len(calls) = Len(ReverseOfSetup(pre.m)))
       /\ \A i \in 1 .. Len(calls) : Failed(calls[i]) => i = Len(calls)

C1_Witness ==
    /\ op.name = "cleanup" /\ ~op.force /\ variant = "base"
    /\ TracksSetupForGrpc(pre.m)
    /\ pre.m.target_proxy.kind = "targetHttpProxy"
    /\ err = "none"
    /\ Targets(calls) = ReverseOfSetup(pre.m)
    /\ \A i \in 1 .. Len(calls) : calls[i].outcome = "ok"

-----------------------------------------------------------------------------
(* C2 *)

SecureRank(kind) ==
    IF kind = "endpointConfigSelector" THEN 1
    ELSE IF kind = "serverTlsPolicy" THEN 2
    ELSE IF kind = "clientTlsPolicy" THEN 3
    ELSE 0

-----------------------------------------------------------------------------
(* C3 *)

\* The place of a collection in a cleanup of the AppNet manager.
AppNetRank(kind) ==
    IF kind = "router" THEN 1 ELSE IF kind = "grpcRoute" THEN 2 ELSE 3

\* C3: a cleanup of the AppNet manager deletes the router first, then the
\* gRPC route, then the base sequence; the router was created after the
\* route, which create_router reads.
C3_RouterRouteThenBase ==
    /\ (op.name = "cleanup" /\ variant = "appnet")
       => /\ \A i, j \in 1 .. Len(calls) :
                i < j => AppNetRank(calls[i].kind) <= AppNetRank(calls[j].kind)
          /\ \A i, j \in 1 .. Len(calls) :
                (i < j /\ AppNetRank(calls[i].kind) = AppNetRank(calls[j].kind))
                => AppNetRank(calls[i].kind) = 3
    /\ (op.name = "create_router" /\ err = "none") => pre.m.grpc_route # None

C3_Witness ==
    /\ op.name = "cleanup" /\ ~op.force /\ variant = "appnet"
    /\ err = "none"
    /\ [i \in 1 .. Len(calls) |-> calls[i].kind] =
           <<"router", "grpcRoute", "backendService", "healthCheck">>
    /\ \A i \in 1 .. Len(calls) : calls[i].outcome = "ok"

-----------------------------------------------------------------------------
(* C4 *)

\* C4: when the registry and the remote agree, as after a complete setup
\* of any class, and the remote fails no call for a reason of its own, a
\* cleanup issues no delete the remote rejects for a dependent that still
\* exists: every delete succeeds, and of what the remote held only the
\* firewall rule is left.
C4_NoDeleteBeforeDependent ==
    (op.name = "cleanup" /\ op.fault = 0 /\ Mirrors(pre.m, pre.r, variant))
    => /\ \A i \in 1 .. Len(calls) : calls[i].outcome \in {"ok", "notfound"}
       /\ err = "none"
       /\ ManagedIds(remote) = {}
       /\ RemoteIds(remote) = RemoteIds(pre.r) \ ManagedIds(pre.r)

\* The registry after setup_for_grpc, setup_server_security and
\* setup_client_security all succeeded.
CompleteSecureSetup(m) ==
    /\ TracksSetupForGrpc(m)
    /\ m.ecs # None /\ m.server_tls_policy # None /\ m.client_tls_policy # None

C4_Witness ==
    /\ op.name = "cleanup" /\ op.fault = 0 /\ variant = "secure"
    /\ CompleteSecureSetup(pre.m)
    /\ Mirrors(pre.m, pre.r, variant)
    /\ \E x \in pre.r : /\ x.id = pre.m.backend_service
                        /\ x.refs = {pre.m.health_check, pre.m.client_tls_policy}
    /\ \E x \in pre.r : x.id = pre.m.ecs /\ x.refs = {pre.m.server_tls_policy}
    /\ err = "none"
    /\ remote = {}

-----------------------------------------------------------------------------
(* C5 *)

\* The create operations and the registry entry each of them fills.
Creates ==
    {[op |-> "create_health_check", field |-> "health_check"],
     [op |-> "create_backend_service", field |-> "backend_service"],
     [op |-> "create_alternative_backend_service",
      field |-> "alternative_backend_service"],
     [op |-> "create_affinity_backend_service",
      field |-> "affinity_backend_service"],
     [op |-> "create_url_map", field |-> "url_map"],
     [op |-> "create_url_map_with_content", field |-> "url_map"],
     [op |-> "create_target_proxy", field |-> "target_proxy"],
     [op |-> "create_forwarding_rule", field |-> "forwarding_rule"],
     [op |-> "create_firewall_rule", field |-> "firewall_rule"],
     [op |-> "create_router", field |-> "router"],
     [op |-> "create_grpc_route", field |-> "grpc_route"],
     [op |-> "create_grpc_route_with_content", field |-> "grpc_route"],
     [op |-> "create_server_tls_policy", field |-> "server_tls_policy"],
     [op |-> "create_endpoint_config_selector", field |-> "ecs"],
     [op |-> "create_client_tls_policy", field |-> "client_tls_policy"]}

\* C5 as claimed: a create of any kind invoked while the registry shows the
\* kind as present fails, and leaves the registry entry of the kind as it was.
C5_CreateWhilePresentFails ==
    \A c \in Creates :
        (op.name = c.op /\ pre.m[c.field] # None)
        => (err # "none" /\ mgr[c.field] = pre.m[c.field])

-----------------------------------------------------------------------------
(* C6 *)

\* C6 as claimed: when a delete of a cleanup fails, the cleanup still issues
\* the deletes that come later in its order, so none is due after the last
\* call it issued.
C6_CleanupIsBestEffort ==
    (op.name = "cleanup" /\ err # "none")
    => LET last == calls[Len(calls)]
       IN  \A j \in 1 .. Len(Plan(variant)) :
              j > PlanPos(pre.m, variant, last)
              => ~Due(pre.m, op.force, Plan(variant)[j])

-----------------------------------------------------------------------------
(* C7 *)

\* The delete operations, the registry entry each clears and the collection
\* and base name each deletes by when forced.
Deletes ==
    {[op |-> "delete_" \o e.field, field |-> e.field, kind |-> e.kind,
      base |-> e.base] :
        e \in (Range(BaseEntries) \cup Range(AppNetEntries) \cup {FirewallEntry})
              \ {x \in Range(BaseEntries) : x.field = "target_proxy"}}
    \cup
    {[op |-> "delete_target_http_proxy", field |-> "target_proxy",
      kind |-> "targetHttpProxy", base |-> TARGET_PROXY_NAME],
     [op |-> "delete_target_grpc_proxy", field |-> "target_proxy",
      kind |-> "targetGrpcProxy", base |-> TARGET_PROXY_NAME],
     [op |-> "delete_endpoint_config_selector", field |-> "ecs",
      kind |-> "endpointConfigSelector", base |-> ENDPOINT_CONFIG_SELECTOR_NAME],
     [op |-> "delete_server_tls_policy", field |-> "server_tls_policy",
      kind |-> "serverTlsPolicy", base |-> SERVER_TLS_POLICY_NAME],
     [op |-> "delete_client_tls_policy", field |-> "client_tls_policy",
      kind |-> "clientTlsPolicy", base |-> CLIENT_TLS_POLICY_NAME]}

\* C7: a forced delete of any kind, the remote failing no call for a reason
\* of its own, does not raise when the remote does not hold the resource
\* (it was never created, or a forced delete has just removed it); and
\* whenever it returns, the registry shows the kind as absent and the remote
\* no longer holds the resource, so that a second forced delete in a row
\* does not raise either.
C7_ForcedDeleteIsIdempotent ==
    \A d \in Deletes :
        (op.name = d.op /\ op.force /\ op.fault = 0)
        => LET id == Derived(pre.m, d.kind, d.base)
           IN  /\ id \notin RemoteIds(pre.r) => err = "none"
               /\ err = "none" => /\ mgr[d.field] = None
                                  /\ id \notin RemoteIds(remote)
               /\ Len(calls) = 1 /\ Target(calls[1]) = id

\* A forced delete of a backend service the remote does not hold, by a
\* manager that does not track one, while the remote holds other resources:
\* the call is issued by name, its not-found is taken as success, and the
\* remote is left as it was.
C7_Witness ==
    /\ op.name = "delete_backend_service" /\ op.force /\ op.fault = 0
    /\ pre.m.backend_service = None
    /\ pre.r # {}
    /\ Derived(pre.m, "backendService", BACKEND_SERVICE_NAME) \notin RemoteIds(pre.r)
    /\ Len(calls) = 1 /\ calls[1].outcome = "notfound"
    /\ err = "none"
    /\ remote = pre.r

-----------------------------------------------------------------------------
(* C8 *)

\* The remote holds the five resources of a setup_for_grpc under the names
\* the manager derives, the proxy of either flavor.
HoldsSetupForGrpc(m, r) ==
    /\ {Derived(m, "healthCheck", HEALTH_CHECK_NAME),
        Derived(m, "backendService", BACKEND_SERVICE_NAME),
        Derived(m, "urlMap", URL_MAP_NAME),
        Derived(m, "forwardingRule", FORWARDING_RULE_NAME)} \subseteq RemoteIds(r)
    /\ \/ Derived(m, "targetGrpcProxy", TARGET_PROXY_NAME) \in RemoteIds(r)
       \/ Derived(m, "targetHttpProxy", TARGET_PROXY_NAME) \in RemoteIds(r)

\* The resources of a setup_for_grpc, of both proxy flavors.
SetupForGrpcIds(m) ==
    {Derived(m, e.kind, e.base) :
        e \in {x \in Range(BaseEntries) :
                 x.field \notin {"alternative_backend_service",
                                 "affinity_backend_service"}}}

\* C8: cleanup(force=True) of a newly constructed manager, against a remote
\* that holds the five resources an earlier manager of the same prefix and
\* suffix set up and fails no call for a reason of its own, returns without
\* error and leaves none of the five on the remote.
C8_ForcedCleanupFromFreshProcess ==
    (/\ op.name = "cleanup" /\ op.force /\ op.fault = 0
     /\ IsFresh(pre.m) /\ HoldsSetupForGrpc(pre.m, pre.r))
    => /\ err = "none"
       /\ SetupForGrpcIds(pre.m) \cap RemoteIds(remote) = {}

C8_Witness ==
    /\ op.name = "cleanup" /\ op.force /\ op.fault = 0
    /\ IsFresh(pre.m) /\ HoldsSetupForGrpc(pre.m, pre.r)
    /\ Derived(pre.m, "targetHttpProxy", TARGET_PROXY_NAME) \in RemoteIds(pre.r)
    /\ err = "none"
    /\ remote = {}

-----------------------------------------------------------------------------
(* C9 *)

\* C9 as claimed: a cleanup of a manager whose every registry entry is
\* absent makes no remote call and succeeds, forced or not.
C9_EmptyCleanupMakesNoCall ==
    (op.name = "cleanup" /\ AllAbsent(pre.m, variant))
    => (calls = <<>> /\ err = "none")

\* C9 as amended: cleanup(force=False) of a manager whose every registry
\* entry is absent makes no remote call and succeeds, in every class;
\* cleanup(force=True) issues delete-by-name calls all the same, one for
\* each entry of its order when none fails.
C9_EmptyUnforcedCleanupMakesNoCall ==
    (op.name = "cleanup" /\ AllAbsent(pre.m, variant))
    => IF op.force
       THEN /\ calls # <<>>
            /\ \A i \in 1 .. Len(calls) : calls[i].verb = "delete"
            /\ err = "none" =>
                 Targets(calls) = [i \in 1 .. Len(Plan(variant)) |->
                                     Derived(pre.m, Plan(variant)[i].kind,
                                             Plan(variant)[i].base)]
       ELSE calls = <<>> /\ err = "none" /\ remote = pre.r /\ mgr = pre.m

\* An unforced cleanup of a manager that tracks nothing, constructed over a
\* remote that holds resources.
C9_Witness ==
    /\ op.name = "cleanup" /\ ~op.force
    /\ AllAbsent(pre.m, variant)
    /\ HoldsSetupForGrpc(pre.m, pre.r)
    /\ calls = <<>>
    /\ err = "none"

-----------------------------------------------------------------------------
(* C10 *)

\* The create calls of setup_for_grpc(host, port) with protocol GRPC.
SetupCalls(m, host, port) ==
    LET hc == Derived(m, "healthCheck", HEALTH_CHECK_NAME)
        bs == Derived(m, "backendService", BACKEND_SERVICE_NAME)
        um == Derived(m, "urlMap", URL_MAP_NAME)
        tp == Derived(m, "targetGrpcProxy", TARGET_PROXY_NAME)
        fr == Derived(m, "forwardingRule", FORWARDING_RULE_NAME)
    IN  <<Call("create", hc.kind, hc.name, None, "GRPC", "ok"),
          Call("create", bs.kind, bs.name, hc, "GRPC", "ok"),
          Call("create", um.kind, um.name, bs, host \o ":" \o ToString(port), "ok"),
          Call("create", tp.kind, tp.name, um, "", "ok"),
          Call("create", fr.kind, fr.name, tp, ToString(port), "ok")>>

\* C10: setup_for_grpc(host, port) with protocol GRPC on a new manager
\* issues the create calls of the health check, the backend service given
\* the health check, the URL map of host:port given the backend service,
\* the GRPC target proxy given the URL map and the forwarding rule on the
\* port given the proxy, in this order and no other call: all five when
\* none fails, and none after a call that fails.
C10_SetupCreatesInOrder ==
    (op.name = "setup_for_grpc" /\ op.protocol = "GRPC" /\ IsFresh(pre.m))
    => LET want == SetupCalls(pre.m, op.host, op.port)
       IN  IF op.fault = 0
           THEN calls = want /\ err = "none"
           ELSE /\ Len(calls) = op.fault
                /\ SubSeq(calls, 1, op.fault - 1) = SubSeq(want, 1, op.fault - 1)
                /\ calls[op.fault] = [want[op.fault] EXCEPT !.outcome = "error"]
                /\ err # "none"

C10_Witness ==
    /\ op.name = "setup_for_grpc" /\ op.protocol = "GRPC" /\ IsFresh(pre.m)
    /\ op.fault = 0
    /\ Len(calls) = 5
    /\ err = "none"
    /\ mgr.forwarding_rule # None

-----------------------------------------------------------------------------
(* C11 *)

\* The registry entries setup_for_grpc fills, in the order it fills them.
SetupFields ==
    <<"health_check", "backend_service", "url_map", "target_proxy",
      "forwarding_rule">>

\* The run record of an operation invoked on the manager and the remote as
\* they are now, the remote failing no call.
Now == Start(0)

\* C11: when the remote fails the k-th create of a setup_for_grpc, the
\* error propagates, the k-th call is the last one issued, no call is a
\* delete, and the resources of the creates before it are tracked in the
\* registry; on a new manager the later entries stay absent, and a
\* cleanup(force=False) that follows deletes exactly the resources created,
\* the last created first.
C11_SetupFailsFastWithoutRollback ==
    (op.name = "setup_for_grpc" /\ op.fault > 0)
    => LET k == op.fault
       IN  /\ err = "RemoteError"
           /\ Len(calls) = k
           /\ \A i \in 1 .. k : calls[i].verb = "create"
           /\ \A i \in 1 .. k : Failed(calls[i]) <=> i = k
           /\ \A i \in 1 .. k - 1 : mgr[SetupFields[i]] = Target(calls[i])
           /\ (IsFresh(pre.m) /\ Mirrors(pre.m, pre.r, variant))
              => /\ \A i \in k .. 5 : mgr[SetupFields[i]] = None
                 /\ RemoteIds(remote) \ RemoteIds(pre.r)
                      = {Target(calls[i]) : i \in 1 .. k - 1}
                 /\ LET after == DoCleanup(Now, FALSE)
                    IN  /\ after.err = "none"
                        /\ \A i \in 1 .. Len(after.calls) :
                               after.calls[i].verb = "delete"
                        /\ Targets(after.calls)
                             = [i \in 1 .. k - 1 |-> Target(calls[k - i])]

\* The remote fails the create of the HTTP target proxy of a new manager:
\* the health check, the backend service and the URL map stay tracked.
C11_Witness ==
    /\ op.name = "setup_for_grpc" /\ op.fault = 4 /\ op.protocol = "HTTP2"
    /\ IsFresh(pre.m) /\ Mirrors(pre.m, pre.r, variant)
    /\ err = "RemoteError"
    /\ calls[4].kind = "targetHttpProxy"
    /\ mgr.url_map # None /\ mgr.target_proxy = None
    /\ Len(DoCleanup(Now, FALSE).calls) = 3

-----------------------------------------------------------------------------
(* C12 *)

\* The three backend services: the registry entry of each and the entry of
\* its tracked backends.
Services ==
    {[svc |-> "backend_service", set |-> "backends"],
     [svc |-> "alternative_backend_service", set |-> "alternative_backends"],
     [svc |-> "affinity_backend_service", set |-> "affinity_backends"]}

\* C12: an add_neg_backends(name, zones) of a tracked service whose waits
\* all return issues one wait per given zone, in the given order, and after
\* them exactly one add-backends call, on the service, whose argument is the
\* whole tracked set: what was tracked before and the group of every given
\* zone, a repeated zone counting once.
C12_OneSetBackendsCall ==
    \A s \in Services :
        (/\ op.name = s.svc \o "_add_neg_backends"
         /\ pre.m[s.svc] # None
         /\ op.fault \in {0, Len(op.zones) + 1})
        => LET n == Len(op.zones)
               found == {ZonalGcpResource(calls[i].name, op.zones[i]) :
                           i \in 1 .. n}
           IN  /\ Len(calls) = n + 1
               /\ \A i \in 1 .. n :
                      /\ calls[i].verb = "wait"
                      /\ calls[i].name \in NegNames
                      /\ calls[i].detail = op.zones[i]
                      /\ calls[i].outcome = "ok"
               /\ calls[n + 1].verb = "add_backends"
               /\ Target(calls[n + 1]) = pre.m[s.svc]
               /\ calls[n + 1].detail = pre.m[s.set] \cup found
               /\ mgr[s.set] = pre.m[s.set] \cup found
               /\ Cardinality(found) = Cardinality(Range(op.zones))

\* Two zones, given in the order us-b, us-a, attached by one call of two
\* backends.
C12_Witness ==
    /\ op.name = "backend_service_add_neg_backends"
    /\ op.zones = <<"us-b", "us-a">>
    /\ pre.m.backend_service # None /\ pre.m.backends = {}
    /\ err = "none"
    /\ Len(calls) = 3
    /\ Cardinality(calls[3].detail) = 2

-----------------------------------------------------------------------------
(* C13 *)

\* C13: create_target_proxy chooses the flavor by the recorded protocol of
\* the backend service.  Any protocol other than GRPC and HTTP2, none
\* recorded included, raises TypeError with no remote call made and the
\* manager, target_proxy and target_proxy_is_http included, left as it was.
\* With GRPC or HTTP2 and a URL map tracked, the one remote call is the
\* create of the GRPC proxy, respectively of the HTTP proxy, given the URL
\* map, and when it succeeds the proxy is tracked with its flavor.
C13_ProxyFlavorFromProtocol ==
    op.name = "create_target_proxy"
    => LET proto == pre.m.backend_service_protocol
       IN  IF proto \notin {"GRPC", "HTTP2"}
           THEN /\ err = "TypeError"
                /\ calls = <<>>
                /\ mgr = pre.m
                /\ remote = pre.r
           ELSE IF pre.m.url_map = None
           THEN calls = <<>> /\ err = "AttributeError"
           ELSE /\ Len(calls) = 1
                /\ calls[1].verb = "create"
                /\ calls[1].kind = IF proto = "GRPC" THEN "targetGrpcProxy"
                                   ELSE "targetHttpProxy"
                /\ calls[1].ref = pre.m.url_map
                /\ err = "none"
                   => /\ mgr.target_proxy = Target(calls[1])
                      /\ mgr.target_proxy_is_http = (proto = "HTTP2")

\* A backend service of protocol HTTP and a URL map are tracked: the proxy
\* create raises before any call.
C13_Witness ==
    /\ op.name = "create_target_proxy"
    /\ pre.m.backend_service_protocol = "HTTP"
    /\ pre.m.url_map # None
    /\ err = "TypeError"
    /\ calls = <<>>
    /\ mgr.target_proxy = None /\ ~mgr.target_proxy_is_http

-----------------------------------------------------------------------------
(* C14 *)

\* C14: find_unused_forwarding_rule_port(lo, hi, attempts) issues existence
\* checks only, at most `attempts` of them.  When it returns, it returns a
\* port of lo .. hi, the port of its last check, which the remote reported
\* free, every check before it having reported a rule.  When each of
\* `attempts` checks reports a rule it raises RuntimeError, the error of
\* exhaustion, after exactly these checks; and whenever it raises it
\* returns no port.
C14_PortOnlyIfReportedFree ==
    op.name = "find_unused_forwarding_rule_port"
    => LET n == Len(calls)
       IN  /\ \A i \in 1 .. n : calls[i].verb = "exists"
           /\ n <= op.attempts
           /\ err = "none"
              => /\ n >= 1
                 /\ result \in op.lo .. op.hi
                 /\ calls[n].detail = ToString(result)
                 /\ calls[n].outcome = "free"
                 /\ \A i \in 1 .. n - 1 : calls[i].outcome = "found"
           /\ (/\ op.lo <= op.hi
               /\ n = op.attempts
               /\ \A i \in 1 .. n : calls[i].outcome = "found")
              => err = "RuntimeError"
           /\ err = "RuntimeError"
              => /\ n = op.attempts
                 /\ \A i \in 1 .. n : calls[i].outcome = "found"
           /\ err # "none" => result = None
           /\ mgr = pre.m /\ remote = pre.r

\* The first port drawn is reported taken, the second free and returned.
C14_Witness ==
    /\ op.name = "find_unused_forwarding_rule_port"
    /\ op.attempts = 2 /\ op.lo < op.hi
    /\ Len(calls) = 2
    /\ calls[1].outcome = "found" /\ calls[2].outcome = "free"
    /\ calls[1].detail # calls[2].detail
    /\ err = "none"
    /\ ToString(result) = calls[2].detail

-----------------------------------------------------------------------------
(* C15 *)

\* The registry shows the kind a delete operation is about as present; a
\* target proxy is of the HTTP kind when target_proxy_is_http is set and of
\* the GRPC kind when it is not.
Present(m, d) ==
    /\ m[d.field] # None
    /\ d.kind = "targetHttpProxy" => m.target_proxy_is_http
    /\ d.kind = "targetGrpcProxy" => ~m.target_proxy_is_http

\* What C15 says of one delete operation invoked with force=False.
UnforcedDeleteOnlyIfTracked(d) ==
    (op.name = d.op /\ ~op.force)
    => IF Present(pre.m, d)
       THEN /\ Len(calls) = 1
            /\ calls[1].verb = "delete"
            /\ calls[1].kind = d.kind
            /\ calls[1].name = pre.m[d.field].name
            /\ err = "none" => mgr[d.field] = None
       ELSE /\ calls = <<>>
            /\ err = "none"
            /\ mgr = pre.m
            /\ remote = pre.r

\* C15 as claimed: for every kind, a delete with force=False issues a remote
\* delete exactly when the registry shows the kind as present, by the name
\* of the tracked resource, and leaves the kind absent when the call
\* succeeds; when the kind is absent it makes no call and changes nothing.
C15_UnforcedDeleteOnlyIfTracked ==
    \A d \in Deletes : UnforcedDeleteOnlyIfTracked(d)

-----------------------------------------------------------------------------
(* C16 *)

\* The firewall rules on a remote.
FirewallRules(r) == {x \in r : x.id.kind = FirewallEntry.kind}

\* C16: the firewall rule is never removed automatically.  A cleanup of any
\* class, forced or not, issues no call about a firewall rule and leaves
\* the firewall_rule entry and the remote's firewall rules as they were;
\* and no operation other than delete_firewall_rule issues a firewall-rule
\* delete, drops a tracked firewall rule from the registry, or removes one
\* from the remote (a newly constructed manager starts with a registry of
\* its own, which tracks nothing).
C16_CleanupKeepsFirewallRule ==
    /\ op.name = "cleanup"
       => /\ \A i \in 1 .. Len(calls) : calls[i].kind # FirewallEntry.kind
          /\ mgr.firewall_rule = pre.m.firewall_rule
          /\ FirewallRules(remote) = FirewallRules(pre.r)
    /\ op.name \notin {NoOp.name, "delete_firewall_rule"}
       => /\ \A i \in 1 .. Len(calls) :
               ~(calls[i].verb = "delete" /\ calls[i].kind = FirewallEntry.kind)
          /\ (op.name # "__init__" /\ pre.m.firewall_rule # None)
             => mgr.firewall_rule # None
          /\ FirewallRules(pre.r) \subseteq FirewallRules(remote)

\* A forced cleanup that removed other resources ran to its end with a
\* firewall rule tracked, which is still tracked and still on the remote.
C16_Witness ==
    /\ op.name = "cleanup"
    /\ op.force
    /\ err = "none"
    /\ pre.m.firewall_rule # None
    /\ remote # pre.r
    /\ mgr.firewall_rule = pre.m.firewall_rule
    /\ \E x \in remote : x.id = mgr.firewall_rule

-----------------------------------------------------------------------------
(* C17 *)

\* The add-backends method of a service.
AddBackends(st, s) ==
    IF s.svc = "backend_service" THEN backend_service_add_backends(st)
    ELSE IF s.svc = "alternative_backend_service"
    THEN alternative_backend_service_add_backends(st)
    ELSE affinity_backend_service_add_backends(st)

\* C17: a remove_all_backends of a tracked service makes exactly one remote
\* call, which sets the backends of that service to none, and leaves the
\* registry, the tracked backend set included, as it was; an add-backends
\* of the service called next therefore issues one call that presents the
\* set tracked before the removal.
C17_RemoveAllKeepsTrackedBackends ==
    \A s \in Services :
        (op.name = s.svc \o "_remove_all_backends" /\ pre.m[s.svc] # None)
        => /\ Len(calls) = 1
           /\ calls[1].verb = "remove_all_backends"
           /\ Target(calls[1]) = pre.m[s.svc]
           /\ calls[1].detail = {}
           /\ mgr = pre.m
           /\ LET later == AddBackends(Now, s)
              IN  /\ Len(later.calls) = 1
                  /\ later.calls[1].verb = "add_backends"
                  /\ Target(later.calls[1]) = pre.m[s.svc]
                  /\ later.calls[1].detail = pre.m[s.set]

\* The backends of a service with a tracked backend were removed on the
\* remote; the tracked set still holds the backend.
C17_Witness ==
    /\ op.name = "backend_service_remove_all_backends"
    /\ err = "none"
    /\ pre.m.backends # {}
    /\ mgr.backends = pre.m.backends
    /\ \E x \in pre.r : x.id = pre.m.backend_service /\ x.backends # {}
    /\ \E x \in remote : x.id = mgr.backend_service /\ x.backends = {}

-----------------------------------------------------------------------------
(* C18 *)

\* Every kind a manager of some class names.
Entries ==
    Range(BaseEntries) \cup Range(AppNetEntries) \cup Range(SecureEntries)
    \cup {FirewallEntry}

\* The base name of the kind a registry entry tracks.
BaseOf(field) == (CHOOSE e \in Entries : e.field = field).base

\* The name C18 gives a kind: prefix, base name and suffix joined by '-',
\* without the suffix and its dash when no suffix is set.
ExpectedName(m, base) ==
    IF m.resource_suffix = "" \/ m.resource_suffix = NoSuffix
    THEN m.resource_prefix \o "-" \o base
    ELSE m.resource_prefix \o "-" \o base \o "-" \o m.resource_suffix

-----------------------------------------------------------------------------
(* C19 *)

\* C19: a create_health_check called while a health check is tracked raises
\* ValueError at once, with no remote call and the registry and the remote
\* as they were; and once a delete_health_check has returned, no health
\* check is tracked and a create_health_check called next, with any
\* protocol, is accepted: it issues exactly one remote call, the create,
\* and tracks the result.
C19_CreateHealthCheckOnlyWhenAbsent ==
    /\ (op.name = "create_health_check" /\ pre.m.health_check # None)
       => /\ err = "ValueError"
          /\ calls = <<>>
          /\ mgr = pre.m
          /\ remote = pre.r
    /\ (op.name = "delete_health_check" /\ err = "none")
       => /\ mgr.health_check = None
          /\ \A p \in HealthCheckProtocols :
                 LET again == create_health_check(Now, p)
                 IN  /\ again.err = "none"
                     /\ Len(again.calls) = 1
                     /\ again.calls[1].verb = "create"
                     /\ again.calls[1].kind = "healthCheck"
                     /\ again.m.health_check = Target(again.calls[1])

\* A delete of the tracked health check has returned: called before it, a
\* create would have been refused; called after it, a create is accepted.
C19_Witness ==
    /\ op.name = "delete_health_check"
    /\ err = "none"
    /\ pre.m.health_check # None
    /\ Len(calls) = 1
    /\ create_health_check([Now EXCEPT !.m = pre.m, !.r = pre.r],
                           NoProtocol).err = "ValueError"
    /\ create_health_check(Now, NoProtocol).err = "none"

-----------------------------------------------------------------------------
(* C20 *)

\* The patch calls among the calls of the last operation.
Patches == {i \in 1 .. Len(calls) : calls[i].verb = "patch"}

\* C20: in the Secure class a patch of the backend service is issued only
\* with a client TLS policy tracked, binds that policy to the tracked
\* backend service, and is issued exactly once whenever
\* setup_client_security or backend_service_apply_client_mtls_policy
\* returns with a policy tracked.  setup_client_security(tls=False,
\* mtls=False) called with no policy tracked makes no remote call and
\* changes neither the registry nor the remote; with tls or mtls set its
\* calls are, in this order, the policy create, the policy get and the
\* patch, of which a call is reached only if the one before it returned,
\* and all three are made when the operation returns.
C20_PatchOnlyWithClientPolicy ==
    (op.name \in {"setup_client_security",
                  "backend_service_apply_client_mtls_policy"})
    => /\ Cardinality(Patches) <= 1
       /\ \A i \in Patches :
              /\ mgr.client_tls_policy # None
              /\ Target(calls[i]) = pre.m.backend_service
              /\ calls[i].ref = mgr.client_tls_policy
       /\ (err = "none" /\ mgr.client_tls_policy # None) => Patches # {}
       /\ (/\ op.name = "setup_client_security"
           /\ ~op.tls /\ ~op.mtls
           /\ pre.m.client_tls_policy = None)
          => /\ calls = <<>>
             /\ mgr = pre.m
             /\ remote = pre.r
       /\ (op.name = "setup_client_security" /\ (op.tls \/ op.mtls))
          => /\ Len(calls) <= 3
             /\ err = "none" => Len(calls) = 3
             /\ \A i \in 1 .. Len(calls) :
                    /\ calls[i].verb = <<"create", "get", "patch">>[i]
                    /\ calls[i].kind = <<"clientTlsPolicy", "clientTlsPolicy",
                                         "backendService">>[i]
                    /\ i < Len(calls) => calls[i].outcome = "ok"

\* A setup_client_security with mtls set returned: create, get, patch, and
\* the remote's backend service now refers to the policy.
C20_Witness ==
    /\ op.name = "setup_client_security"
    /\ op.mtls
    /\ err = "none"
    /\ Len(calls) = 3
    /\ pre.m.client_tls_policy = None
    /\ mgr.client_tls_policy # None
    /\ \E x \in remote :
           x.id = mgr.backend_service /\ mgr.client_tls_policy \in x.refs

-----------------------------------------------------------------------------
(* C21 *)

\* The load operations, the registry entry each assigns and the base name
\* each fetches by.
Loads ==
    {[op |-> "load_backend_service", field |-> "backend_service",
      base |-> BACKEND_SERVICE_NAME],
     [op |-> "load_alternative_backend_service",
      field |-> "alternative_backend_service",
      base |-> ALTERNATIVE_BACKEND_SERVICE_NAME],
     [op |-> "load_affinity_backend_service",
      field |-> "affinity_backend_service",
      base |-> AFFINITY_BACKEND_SERVICE_NAME]}

\* C21: a load of a backend service makes one remote call, a get by the
\* derived name, which leaves the remote as it was; of the registry it
\* changes at most the reference of its own service, which on success is the
\* fetched resource: the recorded protocols and every other entry are as
\* before.  After a load_backend_service by a manager that recorded no
\* protocol, create_target_proxy raises TypeError, with no remote call and
\* no proxy tracked.
C21_LoadOnlySetsReference ==
    /\ \A l \in Loads :
           op.name = l.op
           => /\ Len(calls) = 1
              /\ calls[1].verb = "get"
              /\ calls[1].name = make_resource_name(pre.m, l.base)
              /\ remote = pre.r
              /\ mgr = [pre.m EXCEPT ![l.field] = mgr[l.field]]
              /\ IF err = "none" THEN mgr[l.field] = Target(calls[1])
                 ELSE mgr[l.field] = pre.m[l.field]
    /\ (op.name = "load_backend_service"
        /\ pre.m.backend_service_protocol = NoProtocol)
       => LET next == create_target_proxy(Now)
          IN  /\ next.err = "TypeError"
              /\ next.calls = <<>>
              /\ next.m.target_proxy = mgr.target_proxy

\* A newly constructed manager attached by load to the backend service an
\* earlier manager created; a create_target_proxy called now is refused.
C21_Witness ==
    /\ op.name = "load_backend_service"
    /\ err = "none"
    /\ IsFresh(pre.m)
    /\ mgr.backend_service # None
    /\ mgr.backend_service \in {x.id : x \in remote}
    /\ mgr.backend_service_protocol = NoProtocol
    /\ create_target_proxy(Now).err = "TypeError"

-----------------------------------------------------------------------------
(* C22 *)

\* The backends the remote holds for a backend service.
RemoteBackends(r, service) ==
    UNION {x.backends : x \in {y \in r : y.id = service}}

\* What C22 says of a wait that fails at the k-th zone, the strictness of
\* the inclusion apart: the error propagates; the calls made are the k waits
\* and no add-backends call; the remote is as it was; the tracked set of the
\* service is what was tracked before together with the groups of the zones
\* before k, nothing else in the registry having changed; and the tracked
\* set includes what the remote holds for the service.
FailedWaitKeepsEarlierBackends(s) ==
    LET k == op.fault
        before == {ZonalGcpResource(calls[i].name, op.zones[i]) :
                     i \in 1 .. k - 1}
    IN  /\ err = "RemoteError"
        /\ Len(calls) = k
        /\ \A i \in 1 .. k :
               /\ calls[i].verb = "wait"
               /\ calls[i].detail = op.zones[i]
               /\ calls[i].outcome = IF i = k THEN "error" ELSE "ok"
        /\ remote = pre.r
        /\ mgr = [pre.m EXCEPT ![s.set] = pre.m[s.set] \cup before]
        /\ RemoteBackends(remote, mgr[s.svc]) \subseteq mgr[s.set]

-----------------------------------------------------------------------------
(* C23 *)

\* The delete method of the given name.
DoDelete(st, name, force) ==
    CASE name = "delete_health_check" -> delete_health_check(st, force)
      [] name = "delete_backend_service" -> delete_backend_service(st, force)
      [] name = "delete_alternative_backend_service" ->
             delete_alternative_backend_service(st, force)
      [] name = "delete_affinity_backend_service" ->
             delete_affinity_backend_service(st, force)
      [] name = "delete_url_map" -> delete_url_map(st, force)
      [] name = "delete_target_grpc_proxy" -> delete_target_grpc_proxy(st, force)
      [] name = "delete_target_http_proxy" -> delete_target_http_proxy(st, force)
      [] name = "delete_forwarding_rule" -> delete_forwarding_rule(st, force)
      [] name = "delete_firewall_rule" -> delete_firewall_rule(st, force)
      [] name = "delete_router" -> delete_router(st, force)
      [] name = "delete_grpc_route" -> delete_grpc_route(st, force)
      [] name = "delete_server_tls_policy" -> delete_server_tls_policy(st, force)
      [] name = "delete_endpoint_config_selector" ->
             delete_endpoint_config_selector(st, force)
      [] name = "delete_client_tls_policy" -> delete_client_tls_policy(st, force)

\* C23: a delete operation, forced or not, whose remote delete call fails
\* raises the error of the call and leaves the registry, the record of its
\* kind included, and the remote exactly as they were, so that the same
\* delete called again issues the delete of the same resource; and a delete
\* operation that clears a record has made one remote delete call, which
\* did not fail.
C23_FailedDeleteKeepsRecord ==
    \A d \in Deletes :
        op.name = d.op
        => /\ err # "none"
              => /\ Len(calls) = 1
                 /\ calls[1].verb = "delete"
                 /\ calls[1].outcome \in {"error", "rejected"}
                 /\ err = "RemoteError"
                 /\ mgr = pre.m
                 /\ remote = pre.r
                 /\ LET again == DoDelete(Now, d.op, op.force)
                    IN  /\ Len(again.calls) = 1
                        /\ again.calls[1].verb = "delete"
                        /\ Target(again.calls[1]) = Target(calls[1])
           /\ (pre.m[d.field] # None /\ mgr[d.field] = None)
              => /\ err = "none"
                 /\ Len(calls) = 1
                 /\ calls[1].verb = "delete"
                 /\ calls[1].outcome \in {"ok", "notfound"}

\* The remote failed the delete of a tracked forwarding rule, not forced:
\* the rule is still tracked and still on the remote.
C23_Witness ==
    /\ op.name = "delete_forwarding_rule"
    /\ ~op.force
    /\ err = "RemoteError"
    /\ calls[1].outcome = "error"
    /\ pre.m.forwarding_rule # None
    /\ mgr.forwarding_rule = pre.m.forwarding_rule
    /\ mgr.forwarding_rule \in {x.id : x \in remote}

-----------------------------------------------------------------------------
(* C24 *)

\* C24 as claimed: in every state target_proxy_is_http is set only if a
\* target proxy is tracked and is of the HTTP flavor; and a cleanup with
\* force=False sends an HTTP-proxy delete only for a tracked HTTP proxy and
\* does not clear the record of a GRPC proxy the remote still holds.
C24_HttpFlagOnlyWithHttpProxy ==
    /\ mgr.target_proxy_is_http
       => /\ mgr.target_proxy # None
          /\ mgr.target_proxy.kind = "targetHttpProxy"
    /\ (op.name = "cleanup" /\ ~op.force)
       => /\ \A i \in 1 .. Len(calls) :
                 calls[i].kind = "targetHttpProxy"
                 => pre.m.target_proxy.kind = "targetHttpProxy"
          /\ (/\ pre.m.target_proxy.kind = "targetGrpcProxy"
              /\ mgr.target_proxy = None)
             => pre.m.target_proxy \notin RemoteIds(remote)

-----------------------------------------------------------------------------
(* C25 *)

\* The resources the remote created in the calls of the last operation.
Created ==
    {Target(calls[i]) :
       i \in {j \in 1 .. Len(calls) :
                calls[j].verb = "create" /\ calls[j].outcome = "ok"}}

\* The resources a registry records as present, firewall rule included.
Recorded(m) == Tracked(m, variant) \cup ({m.firewall_rule} \ {None})

\* C25 as claimed: when an operation returns or raises, every resource whose
\* remote create call succeeded in it, of whatever kind, is recorded as
\* present in the registry.
C25_CreatedIsRecorded == Created \subseteq Recorded(mgr)

-----------------------------------------------------------------------------
(* C26 *)

\* C26: the tracked backend sets of a manager only grow.  No operation on a
\* manager, a remove-all-backends, a delete of a backend service and a
\* cleanup included, takes an element out of one of the three sets; an
\* add_neg_backends adds to the set of its own service only; and no other
\* operation changes a set at all.
C26_TrackedBackendsOnlyGrow ==
    (op # NoOp /\ op.name # "__init__")
    => \A s \in Services :
           /\ pre.m[s.set] \subseteq mgr[s.set]
           /\ op.name # s.svc \o "_add_neg_backends"
              => mgr[s.set] = pre.m[s.set]

\* A forced cleanup deleted the backend service a backend had been attached
\* to: the backend is still in the tracked set.
C26_Witness ==
    /\ op.name = "cleanup"
    /\ op.force
    /\ err = "none"
    /\ pre.m.backends # {}
    /\ pre.m.backend_service \in RemoteIds(pre.r)
    /\ RemoteBackends(pre.r, pre.m.backend_service) # {}
    /\ mgr.backend_service = None
    /\ RemoteIds(remote) = {}
    /\ mgr.backends = pre.m.backends

====
